---- MODULE Spec2Model ----
(***************************************************************************)
(* State-machine model of the download orchestration core of the          *)
(* past-papers downloader: the job table and its durable copy              *)
(* (app/services/download_service.py) and the job endpoints                *)
(* (app/api/v1/endpoints/downloads.py).                                    *)
(*                                                                         *)
(* Scheduling.  Everything runs on one asyncio event loop.  A handler or  *)
(* a background task runs without interruption until it reaches an await  *)
(* that really suspends.  pc[j] is the position of job j's background     *)
(* task; the positions in Suspended are the ones at which other           *)
(* coroutines of the process may run.  A step of the model ends at every  *)
(* suspension point and at every write of the durable record, so that     *)
(* each state of the model is a snapshot that some observer can take: a   *)
(* handler of the same process (at suspension points, see Idle) or a      *)
(* reader of the durable record (after every save).                       *)
(***************************************************************************)
EXTENDS Integers, Sequences, FiniteSets, TLC

VARIABLES
    download_jobs,  \* the in-memory job table: job id -> record, or NoJob
    job_files,      \* the durable record <jobs>/<job_id>.json, or NoJob
    pc,             \* position of each job's background task
    tasks,          \* the fetch tasks of each job: file -> [st, outcome]
    completed_q,    \* files whose fetch has returned, in completion order,
                    \* not yet taken by the as_completed loop
    semaphore,      \* value of the job's asyncio.Semaphore
    workdir,        \* the files under <temp-root>/<job_id>/
    archive,        \* the entries of <temp-root>/<qualification>_<id8>.zip, or NoArchive
    history,        \* every value the in-memory status has taken, in order
    worker_jobs,    \* the in-memory job table of a second worker process
    request,        \* the body of the last create request received
    response,       \* the last response an endpoint returned
    storage,        \* whether the job directory can be written: "ok" or "denied"
    filepath,       \* the destination path last built for a file, or NoPath
    cache,          \* the four metadata caches of cache_service
    clock           \* datetime.now(), in hours

vars == <<download_jobs, job_files, pc, tasks, completed_q, semaphore, workdir, archive,
          history, worker_jobs, request, response, storage, filepath, cache, clock>>

(* What the orchestration of a job leaves alone. *)
aux == <<worker_jobs, request, response, storage, filepath, cache, clock>>

(* Bounds of the model: the most files a collection finds, the most      *)
(* locator errors it records, and the configured size of the gate         *)
(* (settings.MAX_CONCURRENT_DOWNLOADS, 15 unless the environment sets it). *)
MaxFiles == 3
MaxCollectErrors == 1
MAX_CONCURRENT_DOWNLOADS == 2

(* The most files of a job in the model of the shared store. *)
StoreFiles == 1

(* The most subject codes and the most season selectors of a create request. *)
MaxSubjects == 2
MaxSelectors == 2

(* Program constant: the save cadence of the fetch loop. *)
SAVE_EVERY == 10

JobIds == {1, 2}
NoJob == [absent |-> TRUE]
NoArchive == [absent |-> TRUE]
NoRequest == [absent |-> TRUE]
NoResponse == [absent |-> TRUE]
NoPath == [absent |-> TRUE]
NoEntry == [absent |-> TRUE]

(* The keys of the keyed caches: "<qualification>:<subject_code>" for the *)
(* season lists, a season URL for the file counts, a qualification id for *)
(* the subject lists.  The qualification summary is a single entry.       *)
SeasonKeys == {"AICE:9700"}
CountKeys == {"url"}
SubjectKeys == {"AICE"}

(* The module-level caches as they are at import: all empty. *)
EmptyCache ==
    [seasons        |-> [k \in SeasonKeys |-> NoEntry],
     file_count     |-> [k \in CountKeys |-> NoEntry],
     subjects       |-> [k \in SubjectKeys |-> NoEntry],
     qualifications |-> NoEntry]
None == "None"

(***************************************************************************)
(* Percentages are the exact rationals num/den, kept as <<num, den>>.      *)
(***************************************************************************)
Pct(num, den) == <<num, den>>
PctLeq(p, q) == p[1] * q[2] <= q[1] * p[2]
PctEq(p, q) == p[1] * q[2] = q[1] * p[2]

Msg(text, a, b) == <<text, a, b>>

(***************************************************************************)
(* download_file_async: what one fetch returns for each thing that can     *)
(* happen to it.  The whole body is inside try/except Exception, so every  *)
(* outcome is returned as a (success, error) pair and none is raised.      *)
(***************************************************************************)
FetchOutcomes == {"200", "404", "timeout", "client_error", "os_error"}

download_file_async_raises_os_error(outcome) ==
    CASE outcome = "200"          -> [raised |-> FALSE, success |-> TRUE,  error |-> None]
      [] outcome = "404"          -> [raised |-> FALSE, success |-> FALSE, error |-> "HTTP 404"]
      [] outcome = "timeout"      -> [raised |-> FALSE, success |-> FALSE, error |-> "Timeout"]
      [] outcome = "client_error" -> [raised |-> FALSE, success |-> FALSE, error |-> "str(e)"]
      [] outcome = "os_error"     -> [raised |-> TRUE,  success |-> FALSE, error |-> "str(e)"]

download_file_async(outcome) ==
    CASE outcome = "200"          -> [raised |-> FALSE, success |-> TRUE,  error |-> None]
      [] outcome = "404"          -> [raised |-> FALSE, success |-> FALSE, error |-> "HTTP 404"]
      [] outcome = "timeout"      -> [raised |-> FALSE, success |-> FALSE, error |-> "Timeout"]
      [] outcome = "client_error" -> [raised |-> FALSE, success |-> FALSE, error |-> "str(e)"]
      [] outcome = "os_error"     -> [raised |-> FALSE, success |-> FALSE, error |-> "str(e)"]

(***************************************************************************)
(* The job store.  NewJobData is the record create_download_job builds and *)
(* writes to the table and to the durable store.                           *)
(***************************************************************************)
NewJobData(method) ==
    [ download_method      |-> method,
      status               |-> "pending",
      current_file         |-> 0,
      total_files          |-> 0,
      percentage           |-> Pct(0, 1),
      message              |-> Msg("Initializing download...", 0, 0),
      downloaded_files     |-> <<>>,
      failed_files         |-> <<>>,
      errors               |-> <<>>,
      started_at           |-> None,
      completed_at         |-> None,
      zip_path             |-> None,
      zip_filename         |-> None,
      direct_download_urls |-> <<>>,
      cleaned              |-> FALSE ]

Exists(j) == download_jobs[j] # NoJob

(* history gains an entry whenever the in-memory status changes. *)
Logged(h, old, new) == IF new = old THEN h ELSE Append(h, new)

(* The positions at which the event loop can run something else. *)
Suspended == {"none", "scheduled", "fetching", "closing", "returned", "crashed"}
Idle == \A k \in JobIds : pc[k] \in Suspended

Init ==
    /\ download_jobs = [j \in JobIds |-> NoJob]
    /\ job_files = [j \in JobIds |-> NoJob]
    /\ pc = [j \in JobIds |-> "none"]
    /\ tasks = [j \in JobIds |-> <<>>]
    /\ completed_q = [j \in JobIds |-> <<>>]
    /\ semaphore = [j \in JobIds |-> 0]
    /\ workdir = [j \in JobIds |-> {}]
    /\ archive = [j \in JobIds |-> NoArchive]
    /\ history = [j \in JobIds |-> <<>>]
    /\ worker_jobs = [j \in JobIds |-> NoJob]
    /\ request = NoRequest
    /\ response = NoResponse
    /\ storage = "ok"
    /\ filepath = NoPath
    /\ cache = EmptyCache
    /\ clock = 0

(***************************************************************************)
(* Endpoints.                                                              *)
(***************************************************************************)

(* The write at the end of create_download_job: the new record goes to    *)
(* <jobs>/<job_id>.json; a PermissionError or OSError is logged and        *)
(* dropped, and the job lives in memory only.                              *)
create_download_job_write(j, method) ==
    job_files' = IF storage = "ok"
                 THEN [job_files EXCEPT ![j] = NewJobData(method)]
                 ELSE job_files

(* POST /bulk with a non-empty selection: the job is created, its status  *)
(* is overwritten in memory with "initializing", and the background task  *)
(* is scheduled.  Job ids are fresh: j is the first unused id.             *)
start_bulk_download(j) ==
    /\ Idle
    /\ ~Exists(j)
    /\ \A k \in JobIds : k < j => Exists(k)
    /\ download_jobs' = [download_jobs EXCEPT ![j] =
            [NewJobData("zip") EXCEPT !.status = "initializing",
                                      !.message = Msg("Starting download... Please wait.", 0, 0)]]
    /\ create_download_job_write(j, "zip")
    /\ pc' = [pc EXCEPT ![j] = "scheduled"]
    /\ history' = [history EXCEPT ![j] = <<"pending", "initializing">>]
    /\ UNCHANGED <<tasks, completed_q, semaphore, workdir, archive, aux>>

(* POST /direct with a non-empty selection. *)
start_direct_download(j) ==
    /\ Idle
    /\ ~Exists(j)
    /\ \A k \in JobIds : k < j => Exists(k)
    /\ download_jobs' = [download_jobs EXCEPT ![j] = NewJobData("direct")]
    /\ create_download_job_write(j, "direct")
    /\ pc' = [pc EXCEPT ![j] = "scheduled"]
    /\ history' = [history EXCEPT ![j] = <<"pending">>]
    /\ UNCHANGED <<tasks, completed_q, semaphore, workdir, archive, aux>>

(* POST /{job_id}/start-direct: any job that exists is marked             *)
(* "downloading", in memory only.                                          *)
start_direct_downloads(j) ==
    /\ Idle
    /\ Exists(j)
    /\ download_jobs' = [download_jobs EXCEPT
            ![j].status = "downloading",
            ![j].message = Msg("Downloads started in browser...", 0, 0)]
    /\ history' = [history EXCEPT ![j] = Logged(@, download_jobs[j].status, "downloading")]
    /\ UNCHANGED <<job_files, pc, tasks, completed_q, semaphore, workdir, archive, aux>>

(* A delete that also cancels the fetches of the job. *)
delete_job_cancels(j) ==
    /\ Idle
    /\ Exists(j)
    /\ workdir' = [workdir EXCEPT ![j] = {}]
    /\ download_jobs' = [download_jobs EXCEPT ![j].cleaned = TRUE]
    /\ tasks' = [tasks EXCEPT ![j] = <<>>]
    /\ completed_q' = [completed_q EXCEPT ![j] = <<>>]
    /\ UNCHANGED <<job_files, pc, semaphore, history, archive, aux>>

(* DELETE /{job_id}: cleanup_job removes the job's working directory and  *)
(* marks the in-memory record.                                             *)
delete_job(j) ==
    /\ Idle
    /\ Exists(j)
    /\ workdir' = [workdir EXCEPT ![j] = {}]
    /\ download_jobs' = [download_jobs EXCEPT ![j].cleaned = TRUE]
    /\ UNCHANGED <<job_files, pc, tasks, completed_q, semaphore, history, archive, aux>>

(***************************************************************************)
(* The background task of an archive-mode job: download_bulk_files.        *)
(***************************************************************************)

(* A save whose failed write leaves a truncated file in the record's place. *)
save_job_to_file_truncates(j, job) ==
    job_files' = [job_files EXCEPT ![j] = IF storage = "ok" THEN job ELSE [torn |-> TRUE]]

(* save_job_to_file: the record is written to <job_id>.tmp, which is then *)
(* renamed over <job_id>.json: the durable record becomes a copy of the   *)
(* record.                                                                 *)
(* It raises to no caller: a PermissionError or OSError is logged and      *)
(* dropped, and the rename never happened, so the record on disk stays.   *)
save_job_to_file(j, job) ==
    job_files' = IF storage = "ok" THEN [job_files EXCEPT ![j] = job] ELSE job_files

LocatorErrors(e) == [i \in 1..e |-> "Error getting files"]

(* Lines 90-102: the task starts, marks the job and saves it. *)
bulk_begin(j) ==
    /\ Idle
    /\ pc[j] = "scheduled"
    /\ download_jobs[j].download_method = "zip"
    /\ LET job == [download_jobs[j] EXCEPT
                      !.status = "collecting_files",
                      !.started_at = "set",
                      !.message = Msg("Collecting file URLs from website...", 0, 0),
                      !.current_file = 0,
                      !.total_files = 0]
       IN /\ download_jobs' = [download_jobs EXCEPT ![j] = job]
          /\ save_job_to_file(j, job)
    /\ pc' = [pc EXCEPT ![j] = "collecting"]
    /\ history' = [history EXCEPT ![j] = Logged(@, download_jobs[j].status, "collecting_files")]
    /\ UNCHANGED <<tasks, completed_q, semaphore, workdir, archive, aux>>

(* Lines 104-152 when an exception escapes the collection loops (a season *)
(* selector without ':', a subject or season lookup that raises): the     *)
(* task ends there, after e locator errors were recorded.                  *)
bulk_collect_raises(j, e) ==
    /\ pc[j] = "collecting"
    /\ download_jobs' = [download_jobs EXCEPT ![j].errors = @ \o LocatorErrors(e)]
    /\ pc' = [pc EXCEPT ![j] = "crashed"]
    /\ UNCHANGED <<job_files, tasks, completed_q, semaphore, history, workdir, archive, aux>>

(* Lines 104-165 when collection finds n files and records e locator      *)
(* errors: zero files fail the job; otherwise the job is marked           *)
(* "downloading", saved, the semaphore is created and one fetch task per  *)
(* file is handed to as_completed.                                         *)
bulk_collect(j, n, e) ==
    /\ pc[j] = "collecting"
    /\ LET found == [download_jobs[j] EXCEPT
                      !.errors = @ \o LocatorErrors(e),
                      !.total_files = n,
                      !.message = Msg("Found files. Starting downloads...", n, 0)]
           job == IF n = 0
                  THEN [found EXCEPT !.status = "failed",
                                     !.message = Msg("No files found to download.", 0, 0)]
                  ELSE [found EXCEPT !.status = "downloading",
                                     !.message = Msg("Downloading files...", n, 0)]
       IN /\ download_jobs' = [download_jobs EXCEPT ![j] = job]
          /\ save_job_to_file(j, job)
          /\ history' = [history EXCEPT ![j] = Logged(@, download_jobs[j].status, job.status)]
    /\ pc' = [pc EXCEPT ![j] = IF n = 0 THEN "returned" ELSE "fetching"]
    /\ tasks' = [tasks EXCEPT ![j] = [f \in 1..n |-> [st |-> "queued", outcome |-> None]]]
    /\ semaphore' = [semaphore EXCEPT ![j] = IF n = 0 THEN @ ELSE MAX_CONCURRENT_DOWNLOADS]
    /\ UNCHANGED <<completed_q, workdir, archive, aux>>

(* "async with semaphore": a fetch passes the gate when a slot is free.    *)
(* The tasks reach the gate in the order as_completed created them and an *)
(* asyncio.Semaphore wakes its waiters first come, first served, so file  *)
(* f passes once every file before it has.                                 *)
CanAcquire_no_gate(value) == TRUE

CanAcquire(value) == value > 0

acquire(j, f) ==
    /\ Idle
    /\ pc[j] = "fetching"
    /\ f \in DOMAIN tasks[j]
    /\ tasks[j][f].st = "queued"
    /\ \A g \in 1..(f - 1) : tasks[j][g].st # "queued"
    /\ CanAcquire(semaphore[j])
    /\ semaphore' = [semaphore EXCEPT ![j] = @ - 1]
    /\ tasks' = [tasks EXCEPT ![j][f].st = "in_flight"]
    /\ UNCHANGED <<download_jobs, job_files, pc, completed_q, history, workdir, archive, aux>>

(* A fetch that gives its slot back only when it fetched the file. *)
fetch_returns_keeps_slot(j, f, o) ==
    /\ Idle
    /\ pc[j] = "fetching"
    /\ f \in DOMAIN tasks[j]
    /\ tasks[j][f].st = "in_flight"
    /\ semaphore' = [semaphore EXCEPT ![j] = IF o = "200" THEN @ + 1 ELSE @]
    /\ tasks' = [tasks EXCEPT ![j][f] = [st |-> "returned", outcome |-> o]]
    /\ completed_q' = [completed_q EXCEPT ![j] = Append(@, f)]
    /\ workdir' = [workdir EXCEPT ![j] = IF o = "200" THEN @ \cup {f} ELSE @]
    /\ UNCHANGED <<download_jobs, job_files, pc, history, archive, aux>>

(* The fetch ends with outcome o: a 200 has left the file in the working  *)
(* directory, the slot is released and the finished task joins the        *)
(* as_completed queue.                                                     *)
fetch_returns(j, f, o) ==
    /\ Idle
    /\ pc[j] = "fetching"
    /\ f \in DOMAIN tasks[j]
    /\ tasks[j][f].st = "in_flight"
    /\ semaphore' = [semaphore EXCEPT ![j] = @ + 1]
    /\ tasks' = [tasks EXCEPT ![j][f] = [st |-> "returned", outcome |-> o]]
    /\ completed_q' = [completed_q EXCEPT ![j] = Append(@, f)]
    /\ workdir' = [workdir EXCEPT ![j] = IF o = "200" THEN @ \cup {f} ELSE @]
    /\ UNCHANGED <<download_jobs, job_files, pc, history, archive, aux>>

(* RecordResult with the counter advanced twice for one completion. *)
RecordResult_counts_twice(job, f, r) ==
    LET count == job.current_file + 2
        listed == IF r.success
                  THEN [job EXCEPT !.downloaded_files = Append(@, f)]
                  ELSE [job EXCEPT !.failed_files =
                            Append(@, [filename |-> f, error |-> r.error])]
    IN [listed EXCEPT !.current_file = count,
                      !.percentage = IF job.total_files > 0
                                     THEN Pct(100 * count, job.total_files)
                                     ELSE @]

(* RecordResult with a failed fetch counted but not listed. *)
RecordResult_drops_failure(job, f, r) ==
    LET count == job.current_file + 1
        listed == IF r.success
                  THEN [job EXCEPT !.downloaded_files = Append(@, f)]
                  ELSE job
    IN [listed EXCEPT !.current_file = count,
                      !.percentage = IF job.total_files > 0
                                     THEN Pct(100 * count, job.total_files)
                                     ELSE @]

(* RecordResult with a failed fetch listed as downloaded as well. *)
RecordResult_lists_both(job, f, r) ==
    LET count == job.current_file + 1
        listed == IF r.success
                  THEN [job EXCEPT !.downloaded_files = Append(@, f)]
                  ELSE [job EXCEPT !.downloaded_files = Append(@, f),
                                   !.failed_files =
                                       Append(@, [filename |-> f, error |-> r.error])]
    IN [listed EXCEPT !.current_file = count,
                      !.percentage = IF job.total_files > 0
                                     THEN Pct(100 * count, job.total_files)
                                     ELSE @]

(* RecordResult with the percentage left for a later iteration. *)
RecordResult_stale_percentage(job, f, r) ==
    LET count == job.current_file + 1
        listed == IF r.success
                  THEN [job EXCEPT !.downloaded_files = Append(@, f)]
                  ELSE [job EXCEPT !.failed_files =
                            Append(@, [filename |-> f, error |-> r.error])]
    IN [listed EXCEPT !.current_file = count]

(* Lines 196-211: what one completed fetch does to the job record. *)
RecordResult(job, f, r) ==
    LET count == job.current_file + 1
        listed == IF r.success
                  THEN [job EXCEPT !.downloaded_files = Append(@, f)]
                  ELSE [job EXCEPT !.failed_files =
                            Append(@, [filename |-> f, error |-> r.error])]
    IN [listed EXCEPT !.current_file = count,
                      !.percentage = IF job.total_files > 0
                                     THEN Pct(100 * count, job.total_files)
                                     ELSE @]

(* Lines 213-215: the cadence of saves in the fetch loop. *)
SaveDue(count, total) == count % SAVE_EVERY = 0 \/ count = total

(* A loop that awaits the fetches in the order of the list, as a plain   *)
(* "for task in download_tasks" would: a result waits for every fetch     *)
(* submitted before it.                                                    *)
process_result_in_list_order(j) ==
    /\ Idle
    /\ pc[j] = "fetching"
    /\ \E f \in DOMAIN tasks[j] :
          /\ tasks[j][f].st = "returned"
          /\ \A g \in 1..(f - 1) : tasks[j][g].st = "recorded"
          /\ LET r == download_file_async(tasks[j][f].outcome)
                 job == RecordResult(download_jobs[j], f, r)
             IN /\ completed_q' = [completed_q EXCEPT ![j] =
                                      SelectSeq(@, LAMBDA g : g # f)]
                /\ tasks' = [tasks EXCEPT ![j][f].st = "recorded"]
                /\ download_jobs' = [download_jobs EXCEPT ![j] = job]
                /\ IF SaveDue(job.current_file, job.total_files)
                   THEN save_job_to_file(j, job)
                   ELSE UNCHANGED job_files
                /\ pc' = [pc EXCEPT ![j] =
                      IF \A g \in DOMAIN tasks[j] \ {f} : tasks[j][g].st = "recorded"
                      THEN "closing" ELSE "fetching"]
    /\ UNCHANGED <<semaphore, history, workdir, archive, aux>>

(* One iteration of the as_completed loop, lines 195-215: the loop takes  *)
(* the fetches in the order they completed and ends when it has taken     *)
(* every task.  A fetch that raised would end the task here, with the job *)
(* left as it is.  (The locals downloaded_count and total_files of the    *)
(* code equal the record's current_file and total_files: nothing else     *)
(* writes those fields.)                                                   *)
process_result(j) ==
    /\ Idle
    /\ pc[j] = "fetching"
    /\ completed_q[j] # <<>>
    /\ LET f == Head(completed_q[j])
           r == download_file_async(tasks[j][f].outcome)
           job == RecordResult(download_jobs[j], f, r)
       IN /\ completed_q' = [completed_q EXCEPT ![j] = Tail(@)]
          /\ tasks' = [tasks EXCEPT ![j][f].st = "recorded"]
          /\ IF r.raised
             THEN /\ pc' = [pc EXCEPT ![j] = "crashed"]
                  /\ UNCHANGED <<download_jobs, job_files>>
             ELSE /\ download_jobs' = [download_jobs EXCEPT ![j] = job]
                  /\ IF SaveDue(job.current_file, job.total_files)
                     THEN save_job_to_file(j, job)
                     ELSE UNCHANGED job_files
                  /\ pc' = [pc EXCEPT ![j] =
                        IF \A g \in DOMAIN tasks[j] \ {f} : tasks[j][g].st = "recorded"
                        THEN "closing" ELSE "fetching"]
    /\ UNCHANGED <<semaphore, history, workdir, archive, aux>>

(* Lines 216-221: the session is closed (an await), then the job is       *)
(* marked "creating_zip" at 95 percent and saved.                          *)
bulk_mark_creating_zip(j) ==
    /\ Idle
    /\ pc[j] = "closing"
    /\ LET job == [download_jobs[j] EXCEPT
                      !.status = "creating_zip",
                      !.message = Msg("Creating ZIP archive...", 0, 0),
                      !.percentage = Pct(95, 1)]
       IN /\ download_jobs' = [download_jobs EXCEPT ![j] = job]
          /\ save_job_to_file(j, job)
    /\ pc' = [pc EXCEPT ![j] = "zipping"]
    /\ history' = [history EXCEPT ![j] = Logged(@, download_jobs[j].status, "creating_zip")]
    /\ UNCHANGED <<tasks, completed_q, semaphore, workdir, archive, aux>>

(* Line 223 when create_zip_archive raises (the archive cannot be         *)
(* written): nothing catches it and the task ends.                         *)
bulk_zip_raises(j) ==
    /\ pc[j] = "zipping"
    /\ pc' = [pc EXCEPT ![j] = "crashed"]
    /\ UNCHANGED <<download_jobs, job_files, tasks, completed_q, semaphore, history,
                   workdir, archive, aux>>

(* create_zip_archive: every file under the working directory becomes an *)
(* entry of the archive.                                                   *)
create_zip_archive(j) == [entries |-> workdir[j]]

(* bulk_complete with the archive path left unset. *)
bulk_complete_without_path(j) ==
    /\ pc[j] = "zipping"
    /\ LET job == [download_jobs[j] EXCEPT
                      !.status = "completed",
                      !.completed_at = "set",
                      !.percentage = Pct(100, 1)]
       IN /\ download_jobs' = [download_jobs EXCEPT ![j] = job]
          /\ save_job_to_file(j, job)
    /\ archive' = [archive EXCEPT ![j] = create_zip_archive(j)]
    /\ pc' = [pc EXCEPT ![j] = "returned"]
    /\ history' = [history EXCEPT ![j] = Logged(@, download_jobs[j].status, "completed")]
    /\ UNCHANGED <<tasks, completed_q, semaphore, workdir, aux>>

(* Lines 223-235 when the archive is built. *)
bulk_complete(j) ==
    /\ pc[j] = "zipping"
    /\ LET job == [download_jobs[j] EXCEPT
                      !.status = "completed",
                      !.completed_at = "set",
                      !.zip_path = "temp_downloads/Q_jobid8.zip",
                      !.zip_filename = "Q_jobid8.zip",
                      !.percentage = Pct(100, 1),
                      !.message = Msg("Download complete!",
                                      Len(download_jobs[j].downloaded_files),
                                      Len(download_jobs[j].failed_files))]
       IN /\ download_jobs' = [download_jobs EXCEPT ![j] = job]
          /\ save_job_to_file(j, job)
    /\ archive' = [archive EXCEPT ![j] = create_zip_archive(j)]
    /\ pc' = [pc EXCEPT ![j] = "returned"]
    /\ history' = [history EXCEPT ![j] = Logged(@, download_jobs[j].status, "completed")]
    /\ UNCHANGED <<tasks, completed_q, semaphore, workdir, aux>>

(***************************************************************************)
(* The background task of a direct-mode job: download_direct_files.  It   *)
(* has no await and saves once, at its end, so it is one step.            *)
(***************************************************************************)
(* Line 441 raises on a season selector without ':'. *)
direct_parse_raises(j) ==
    /\ Idle
    /\ pc[j] = "scheduled"
    /\ download_jobs[j].download_method = "direct"
    /\ download_jobs' = [download_jobs EXCEPT
            ![j].status = "collecting_files",
            ![j].started_at = "set"]
    /\ pc' = [pc EXCEPT ![j] = "crashed"]
    /\ history' = [history EXCEPT ![j] = Logged(@, download_jobs[j].status, "collecting_files")]
    /\ UNCHANGED <<job_files, tasks, completed_q, semaphore, workdir, archive, aux>>

(* A subject or season lookup raises, after e locator errors. *)
direct_collect_raises(j, e) ==
    /\ Idle
    /\ pc[j] = "scheduled"
    /\ download_jobs[j].download_method = "direct"
    /\ download_jobs' = [download_jobs EXCEPT
            ![j].status = "collecting_files",
            ![j].started_at = "set",
            ![j].message = Msg("Collecting file URLs...", 0, 0),
            ![j].errors = @ \o LocatorErrors(e)]
    /\ pc' = [pc EXCEPT ![j] = "crashed"]
    /\ history' = [history EXCEPT ![j] = Logged(@, download_jobs[j].status, "collecting_files")]
    /\ UNCHANGED <<job_files, tasks, completed_q, semaphore, workdir, archive, aux>>

(* A collection that counts the files and keeps none of their links. *)
download_direct_files_keeps_no_links(j, n, e) ==
    /\ Idle
    /\ pc[j] = "scheduled"
    /\ download_jobs[j].download_method = "direct"
    /\ LET job == [download_jobs[j] EXCEPT
                      !.started_at = "set",
                      !.errors = @ \o LocatorErrors(e),
                      !.total_files = n,
                      !.status = "ready",
                      !.message = Msg("Ready to download files.", n, 0)]
       IN /\ download_jobs' = [download_jobs EXCEPT ![j] = job]
          /\ save_job_to_file(j, job)
    /\ pc' = [pc EXCEPT ![j] = "returned"]
    /\ history' = [history EXCEPT ![j] =
            Logged(Logged(@, download_jobs[j].status, "collecting_files"),
                   "collecting_files", "ready")]
    /\ UNCHANGED <<tasks, completed_q, semaphore, workdir, archive, aux>>

(* download_direct_files, lines 415-487, when no lookup raises: the       *)
(* status becomes "collecting_files", the links of the n files found are  *)
(* put on the record with status "ready", and the record is saved once.   *)
download_direct_files(j, n, e) ==
    /\ Idle
    /\ pc[j] = "scheduled"
    /\ download_jobs[j].download_method = "direct"
    /\ LET job == [download_jobs[j] EXCEPT
                      !.started_at = "set",
                      !.errors = @ \o LocatorErrors(e),
                      !.total_files = n,
                      !.status = "ready",
                      !.message = Msg("Ready to download files.", n, 0),
                      !.direct_download_urls = [f \in 1..n |-> f]]
       IN /\ download_jobs' = [download_jobs EXCEPT ![j] = job]
          /\ save_job_to_file(j, job)
    /\ pc' = [pc EXCEPT ![j] = "returned"]
    /\ history' = [history EXCEPT ![j] =
            Logged(Logged(@, download_jobs[j].status, "collecting_files"),
                   "collecting_files", "ready")]
    /\ UNCHANGED <<tasks, completed_q, semaphore, workdir, archive, aux>>

(***************************************************************************)
(* Specifications.                                                         *)
(***************************************************************************)
Solo == {1}

(* The fetches that get a response: a 200, whose body is written, or     *)
(* another status.  FetchOutcomes adds the timeout and the exceptions.    *)
Responses == {"200", "404"}

BulkStep(j, outcomes) ==
    \/ bulk_begin(j)
    \/ \E e \in 0..MaxCollectErrors : bulk_collect_raises(j, e)
    \/ \E n \in 0..MaxFiles, e \in 0..MaxCollectErrors : bulk_collect(j, n, e)
    \/ \E f \in 1..MaxFiles : acquire(j, f)
    \/ \E f \in 1..MaxFiles, o \in outcomes : fetch_returns(j, f, o)
    \/ process_result(j)
    \/ bulk_mark_creating_zip(j)
    \/ bulk_zip_raises(j)
    \/ bulk_complete(j)

DirectStep(j) ==
    \/ direct_parse_raises(j)
    \/ \E e \in 0..MaxCollectErrors : direct_collect_raises(j, e)
    \/ \E n \in 0..MaxFiles, e \in 0..MaxCollectErrors : download_direct_files(j, n, e)

Request(j) ==
    \/ start_bulk_download(j)
    \/ start_direct_download(j)
    \/ start_direct_downloads(j)
    \/ delete_job(j)

(* One job of either mode, with every endpoint call at every point where  *)
(* the event loop can take it.                                             *)
Next == \E j \in Solo : Request(j) \/ BulkStep(j, Responses) \/ DirectStep(j)

Spec == Init /\ [][Next]_vars

(* One archive-mode job whose fetches meet every outcome. *)
NextFetch == \E j \in Solo : start_bulk_download(j) \/ BulkStep(j, FetchOutcomes)

SpecFetch == Init /\ [][NextFetch]_vars

(* Several archive-mode jobs running in the one process. *)
NextMulti == \E j \in JobIds : start_bulk_download(j) \/ BulkStep(j, {"200"})

SpecMulti == Init /\ [][NextMulti]_vars

(* The event loop runs every coroutine that is ready, and every fetch     *)
(* ends, at the latest by its timeout: a job's task is never left aside   *)
(* forever.  Requests are under no obligation to arrive.                   *)
FairSpec == Spec /\ \A j \in Solo : WF_vars(BulkStep(j, Responses) \/ DirectStep(j))

(* One archive-mode job left to itself, under the same fairness. *)
NextBulk == \E j \in Solo : start_bulk_download(j) \/ BulkStep(j, Responses)

FairSpecBulk == Init /\ [][NextBulk]_vars /\ \A j \in Solo : WF_vars(BulkStep(j, Responses))

(***************************************************************************)
(* The job store shared by worker processes.  Every worker has its own    *)
(* in-memory table and all of them read the one durable store.  Worker 1  *)
(* is the process that creates the jobs and runs their tasks (its table   *)
(* is download_jobs); worker 2 is any other process serving requests for  *)
(* the same jobs (its table is worker_jobs).                               *)
(***************************************************************************)
Workers == {1, 2}
Table(w) == IF w = 1 THEN download_jobs ELSE worker_jobs

(* <jobs>/<job_id>.json between open(job_file, 'w') and the end of         *)
(* json.dump in create_download_job: the file exists and does not parse.   *)
Torn == [torn |-> TRUE]

(* get_job_status answering for a job that is in neither place. *)
get_job_status_default_on_miss(table, j) ==
    IF table[j] # NoJob
    THEN [job |-> table[j], table |-> table, source |-> "memory"]
    ELSE IF job_files[j] = NoJob \/ job_files[j] = Torn
    THEN [job |-> NewJobData("zip"),
          table |-> [table EXCEPT ![j] = NewJobData("zip")], source |-> "none"]
    ELSE [job |-> job_files[j],
          table |-> [table EXCEPT ![j] = job_files[j]], source |-> "disk"]

(* get_job_status keeping a fresh record where it should keep the loaded one. *)
get_job_status_inserts_blank(table, j) ==
    IF table[j] # NoJob
    THEN [job |-> table[j], table |-> table, source |-> "memory"]
    ELSE IF job_files[j] = NoJob \/ job_files[j] = Torn
    THEN [job |-> NoJob, table |-> table, source |-> "none"]
    ELSE [job |-> job_files[j],
          table |-> [table EXCEPT ![j] = NewJobData(job_files[j].download_method)],
          source |-> "disk"]

(* get_job_status returning the loaded record without keeping it. *)
get_job_status_no_insert(table, j) ==
    IF table[j] # NoJob
    THEN [job |-> table[j], table |-> table, source |-> "memory"]
    ELSE IF job_files[j] = NoJob \/ job_files[j] = Torn
    THEN [job |-> NoJob, table |-> table, source |-> "none"]
    ELSE [job |-> job_files[j], table |-> table, source |-> "disk"]

(* get_job_status: the record the table holds; failing that the durable   *)
(* record, which is then kept in the table; failing that (no file, or a   *)
(* file that cannot be read or parsed) nothing.  The result carries the   *)
(* table as the call leaves it and the place the record came from.         *)
get_job_status(table, j) ==
    IF table[j] # NoJob
    THEN [job |-> table[j], table |-> table, source |-> "memory"]
    ELSE IF job_files[j] = NoJob \/ job_files[j] = Torn
    THEN [job |-> NoJob, table |-> table, source |-> "none"]
    ELSE [job |-> job_files[j],
          table |-> [table EXCEPT ![j] = job_files[j]], source |-> "disk"]

(* The bodies of the two status responses. *)
DownloadProgress(job) ==
    [ status               |-> job.status,
      current_file         |-> job.current_file,
      total_files          |-> job.total_files,
      percentage           |-> job.percentage,
      message              |-> job.message,
      downloaded_files     |-> job.downloaded_files,
      failed_files         |-> job.failed_files,
      errors               |-> job.errors,
      zip_path             |-> job.zip_path,
      zip_filename         |-> job.zip_filename,
      direct_download_urls |-> IF job.direct_download_urls # <<>>
                               THEN job.direct_download_urls ELSE None ]

JobStatus(job) ==
    [ status           |-> job.status,
      current_file     |-> job.current_file,
      total_files      |-> job.total_files,
      percentage       |-> job.percentage,
      message          |-> job.message,
      downloaded_files |-> job.downloaded_files,
      failed_files     |-> job.failed_files,
      errors           |-> job.errors,
      started_at       |-> job.started_at,
      completed_at     |-> job.completed_at,
      zip_path         |-> job.zip_path,
      zip_filename     |-> job.zip_filename ]

Reply(op, w, j, code, source, body) ==
    [op |-> op, worker |-> w, job_id |-> j, status_code |-> code, source |-> source,
     body |-> body]

(* The body of an error response, and of a plain acknowledgement. *)
Detail(text) == [detail |-> text]
Message(text) == [message |-> text]

NotFound(op, w, j, source) == Reply(op, w, j, 404, source, Detail("Job not found"))

(* A handler of worker 1 runs when the event loop of worker 1 is free; a  *)
(* handler of another process runs at any time.                            *)
Runs(w) == w = 1 => Idle

Commit(w, table) ==
    IF w = 1
    THEN download_jobs' = table /\ UNCHANGED worker_jobs
    ELSE worker_jobs' = table /\ UNCHANGED download_jobs

(* GET /{job_id}/progress *)
get_download_progress(w, j) ==
    /\ Runs(w)
    /\ LET got == get_job_status(Table(w), j)
       IN /\ Commit(w, got.table)
          /\ response' = IF got.job = NoJob
                         THEN NotFound("progress", w, j, got.source)
                         ELSE Reply("progress", w, j, 200, got.source,
                                    DownloadProgress(got.job))
    /\ UNCHANGED <<storage, filepath, cache, clock, job_files, pc, tasks, completed_q, semaphore, workdir, archive, history,
                   request>>

(* GET /{job_id} *)
job_status(w, j) ==
    /\ Runs(w)
    /\ LET got == get_job_status(Table(w), j)
       IN /\ Commit(w, got.table)
          /\ response' = IF got.job = NoJob
                         THEN NotFound("status", w, j, got.source)
                         ELSE Reply("status", w, j, 200, got.source, JobStatus(got.job))
    /\ UNCHANGED <<storage, filepath, cache, clock, job_files, pc, tasks, completed_q, semaphore, workdir, archive, history,
                   request>>

(* What GET /{job_id}/zip answers for the record the lookup returned:    *)
(* the file at zip_path, or the first error that applies.                 *)
zip_response(w, j, got) ==
    IF got.job = NoJob THEN NotFound("zip", w, j, got.source)
    ELSE IF got.job.status # "completed"
    THEN Reply("zip", w, j, 400, got.source, Detail("Job is not completed"))
    ELSE IF got.job.zip_path = None
    THEN Reply("zip", w, j, 404, got.source, Detail("ZIP file not found"))
    ELSE IF archive[j] = NoArchive
    THEN Reply("zip", w, j, 404, got.source, Detail("ZIP file does not exist"))
    ELSE Reply("zip", w, j, 200, got.source, archive[j])

(* GET /{job_id}/zip *)
download_zip(w, j) ==
    /\ Runs(w)
    /\ LET got == get_job_status(Table(w), j)
       IN /\ Commit(w, got.table)
          /\ response' = zip_response(w, j, got)
    /\ UNCHANGED <<storage, filepath, cache, clock, job_files, pc, tasks, completed_q, semaphore, workdir, archive, history,
                   request>>

(* POST /{job_id}/start-direct, at any worker.  The record get_job_status *)
(* returns is the one the table holds, so the handler's writes are        *)
(* writes to the table.                                                    *)
start_direct_downloads_at(w, j) ==
    /\ Runs(w)
    /\ LET got == get_job_status(Table(w), j)
       IN IF got.job = NoJob
          THEN /\ Commit(w, got.table)
               /\ response' = NotFound("start-direct", w, j, got.source)
               /\ UNCHANGED history
          ELSE /\ Commit(w, [got.table EXCEPT
                        ![j].status = "downloading",
                        ![j].message = Msg("Downloads started in browser...", 0, 0)])
               /\ response' = Reply("start-direct", w, j, 200, got.source,
                                    Message("Direct downloads started"))
               /\ history' = IF w = 1
                             THEN [history EXCEPT ![j] =
                                      Logged(@, got.job.status, "downloading")]
                             ELSE history
    /\ UNCHANGED <<storage, filepath, cache, clock, job_files, pc, tasks, completed_q, semaphore, workdir, archive, request>>

(* A delete that removes the archive along with the working directory. *)
delete_job_at_removes_archive(w, j) ==
    /\ Runs(w)
    /\ LET got == get_job_status(Table(w), j)
       IN IF got.job = NoJob
          THEN /\ Commit(w, got.table)
               /\ response' = NotFound("delete", w, j, got.source)
               /\ UNCHANGED <<workdir, archive>>
          ELSE /\ Commit(w, [got.table EXCEPT ![j].cleaned = TRUE])
               /\ workdir' = [workdir EXCEPT ![j] = {}]
               /\ archive' = [archive EXCEPT ![j] = NoArchive]
               /\ response' = Reply("delete", w, j, 200, got.source, Message("Job deleted"))
    /\ UNCHANGED <<storage, filepath, cache, clock, job_files, pc, tasks, completed_q, semaphore, history, request>>

(* DELETE /{job_id}, at any worker: cleanup_job acts on a job the table   *)
(* holds, which get_job_status has just made sure of.                      *)
delete_job_at(w, j) ==
    /\ Runs(w)
    /\ LET got == get_job_status(Table(w), j)
       IN IF got.job = NoJob
          THEN /\ Commit(w, got.table)
               /\ response' = NotFound("delete", w, j, got.source)
               /\ UNCHANGED workdir
          ELSE /\ Commit(w, [got.table EXCEPT ![j].cleaned = TRUE])
               /\ workdir' = [workdir EXCEPT ![j] = {}]
               /\ response' = Reply("delete", w, j, 200, got.source, Message("Job deleted"))
    /\ UNCHANGED <<storage, filepath, cache, clock, job_files, pc, tasks, completed_q, semaphore, archive, history, request>>

(* create_download_job, lines 283-314: the record enters the table and    *)
(* the durable file is opened for writing in place.                        *)
create_download_job_opens(j, method) ==
    /\ Idle
    /\ ~Exists(j)
    /\ \A k \in JobIds : k < j => Exists(k)
    /\ download_jobs' = [download_jobs EXCEPT ![j] = NewJobData(method)]
    /\ job_files' = [job_files EXCEPT ![j] = Torn]
    /\ pc' = [pc EXCEPT ![j] = "creating"]
    /\ history' = [history EXCEPT ![j] = <<"pending">>]
    /\ UNCHANGED <<tasks, completed_q, semaphore, workdir, archive, aux>>

(* Lines 315-316 of create_download_job, then the rest of POST /bulk. *)
start_bulk_download_returns(j) ==
    /\ pc[j] = "creating"
    /\ download_jobs[j].download_method = "zip"
    /\ create_download_job_write(j, "zip")
    /\ download_jobs' = [download_jobs EXCEPT
            ![j].status = "initializing",
            ![j].message = Msg("Starting download... Please wait.", 0, 0)]
    /\ pc' = [pc EXCEPT ![j] = "scheduled"]
    /\ history' = [history EXCEPT ![j] = Append(@, "initializing")]
    /\ response' = Reply("bulk", 1, j, 202, "memory", [status |-> "initializing"])
    /\ UNCHANGED <<storage, filepath, cache, clock, tasks, completed_q, semaphore, workdir, archive, worker_jobs, request>>

(* Lines 315-316 of create_download_job, then the rest of POST /direct. *)
start_direct_download_returns(j) ==
    /\ pc[j] = "creating"
    /\ download_jobs[j].download_method = "direct"
    /\ create_download_job_write(j, "direct")
    /\ pc' = [pc EXCEPT ![j] = "scheduled"]
    /\ response' = Reply("direct", 1, j, 202, "memory", [status |-> "pending"])
    /\ UNCHANGED <<storage, filepath, cache, clock, download_jobs, tasks, completed_q, semaphore, workdir, archive, history,
                   worker_jobs, request>>

Query(w, j) ==
    \/ get_download_progress(w, j)
    \/ job_status(w, j)
    \/ download_zip(w, j)

Operation(w, j) ==
    \/ Query(w, j)
    \/ start_direct_downloads_at(w, j)
    \/ delete_job_at(w, j)

Create(j) ==
    \/ \E method \in {"zip", "direct"} : create_download_job_opens(j, method)
    \/ start_bulk_download_returns(j)
    \/ start_direct_download_returns(j)

(* The task of the job, for a selection of at most StoreFiles files whose *)
(* locator and fetches succeed.                                            *)
StoreStep(j) ==
    \/ bulk_begin(j)
    \/ \E n \in 0..StoreFiles : bulk_collect(j, n, 0)
    \/ \E f \in 1..StoreFiles : acquire(j, f)
    \/ \E f \in 1..StoreFiles : fetch_returns(j, f, "200")
    \/ process_result(j)
    \/ bulk_mark_creating_zip(j)
    \/ bulk_complete(j)
    \/ \E n \in 0..StoreFiles : download_direct_files(j, n, 0)

(* One job, created and run by worker 1.  Worker 2 takes every operation  *)
(* for the job's id and for an id nobody was given.  Worker 1 takes the   *)
(* queries and the delete for both ids, and start-direct for the id       *)
(* nobody was given: its start-direct on the job it is running, which     *)
(* rewrites the status the task writes, is in Spec.                        *)
NextStore ==
    \/ \E j \in Solo : Create(j) \/ StoreStep(j)
    \/ \E j \in JobIds : Operation(2, j)
    \/ \E j \in JobIds : Query(1, j) \/ delete_job_at(1, j)
    \/ \E j \in JobIds \ Solo : start_direct_downloads_at(1, j)

SpecStore == Init /\ [][NextStore]_vars

(* The same, with the event loop of worker 1 running the task it was      *)
(* given, and a client that keeps polling worker 2 for the job: a query   *)
(* that would change anything there is eventually served.                 *)
FairSpecStore ==
    /\ SpecStore
    /\ \A j \in Solo : WF_vars(Create(j) \/ StoreStep(j))
    /\ \A j \in Solo : WF_vars(Query(2, j))

(***************************************************************************)
(* Create requests and what collection makes of them.                      *)
(*                                                                         *)
(* A season selector "subjectCode:seasonId" is kept as the sequence of    *)
(* its parts between colons: <<"9700", "2023">> is "9700:2023" and        *)
(* <<"97002023">> is a selector without a colon.                           *)
(*                                                                         *)
(* The site, as the lookups see it: the qualification lists two subjects; *)
(* 9700 has seasons 2023 (two papers) and 2024 (whose page cannot be      *)
(* fetched: the locator raises); 9701 has season 2023 (one paper).        *)
(***************************************************************************)
SubjectCodes == {"9700", "9701", "0000"}

Selectors == { <<"9700", "2023">>, <<"9700", "2024">>, <<"9700", "1999">>,
               <<"9701", "2023">>, <<"0000", "2023">>, <<"97002023">> }

SeqsUpTo(S, n) == UNION {[1..k -> S] : k \in 0..n}

Requests == [subjects : SeqsUpTo(SubjectCodes, MaxSubjects),
             seasons  : SeqsUpTo(Selectors, MaxSelectors)]

(* subject_service.get_subject_by_code: the subject, or None. *)
get_subject_by_code(code) == IF code \in {"9700", "9701"} THEN code ELSE None

(* season_service.get_season_by_id: the season, or None. *)
get_season_by_id(code, season_id) ==
    IF \/ code = "9700" /\ season_id \in {"2023", "2024"}
       \/ code = "9701" /\ season_id = "2023"
    THEN <<code, season_id>> ELSE None

(* web_scraper.get_exams on the season's page: the number of papers, or   *)
(* an exception.                                                           *)
get_exams(season) ==
    IF season = <<"9700", "2023">> THEN [raised |-> FALSE, count |-> 2]
    ELSE IF season = <<"9701", "2023">> THEN [raised |-> FALSE, count |-> 1]
    ELSE [raised |-> TRUE, count |-> 0]

(* subject_code, season_id = season_key.split(":", 1) raises ValueError   *)
(* when the selector has no colon.                                         *)
SplitRaises(season_key) == Len(season_key) < 2

(* season_map.get(subject_code, []): the season ids selected for the      *)
(* subject, in the order of the request.                                   *)
season_map(seasons, subject_code) ==
    LET mine == SelectSeq(seasons, LAMBDA key : key[1] = subject_code)
    IN [i \in DOMAIN mine |-> mine[i][2]]

(* The season loop ending at the first locator exception. *)
RECURSIVE CollectSeasons_stops_at_error(_, _, _)
CollectSeasons_stops_at_error(subject_code, season_ids, found) ==
    IF season_ids = <<>> THEN found
    ELSE LET season == get_season_by_id(subject_code, Head(season_ids))
         IN IF season = None
            THEN CollectSeasons_stops_at_error(subject_code, Tail(season_ids), found)
            ELSE IF get_exams(season).raised
            THEN [found EXCEPT !.errors = @ + 1]
            ELSE CollectSeasons_stops_at_error(subject_code, Tail(season_ids),
                    [found EXCEPT !.total_files = @ + get_exams(season).count])

(* Lines 125-152: the loop over the seasons selected for one subject. *)
RECURSIVE CollectSeasons(_, _, _)
CollectSeasons(subject_code, season_ids, found) ==
    IF season_ids = <<>> THEN found
    ELSE LET season == get_season_by_id(subject_code, Head(season_ids))
         IN IF season = None
            THEN CollectSeasons(subject_code, Tail(season_ids), found)
            ELSE IF get_exams(season).raised
            THEN CollectSeasons(subject_code, Tail(season_ids),
                    [found EXCEPT !.errors = @ + 1])
            ELSE CollectSeasons(subject_code, Tail(season_ids),
                    [found EXCEPT !.total_files = @ + get_exams(season).count])

(* The subject loop recording an error for a subject it cannot resolve. *)
RECURSIVE CollectSubjects_reports_unlisted(_, _, _)
CollectSubjects_reports_unlisted(subjects, seasons, found) ==
    IF subjects = <<>> THEN found
    ELSE IF get_subject_by_code(Head(subjects)) = None
    THEN CollectSubjects_reports_unlisted(Tail(subjects), seasons,
            [found EXCEPT !.errors = @ + 1])
    ELSE CollectSubjects_reports_unlisted(Tail(subjects), seasons,
            CollectSeasons(Head(subjects), season_map(seasons, Head(subjects)), found))

(* Lines 116-152: the loop over the requested subjects. *)
RECURSIVE CollectSubjects(_, _, _)
CollectSubjects(subjects, seasons, found) ==
    IF subjects = <<>> THEN found
    ELSE IF get_subject_by_code(Head(subjects)) = None
    THEN CollectSubjects(Tail(subjects), seasons, found)
    ELSE CollectSubjects(Tail(subjects), seasons,
            CollectSeasons(Head(subjects), season_map(seasons, Head(subjects)), found))

(* The validation at the top of the two create handlers. *)
Validate(req) ==
    IF req.subjects = <<>>
    THEN [raised |-> TRUE, status_code |-> 400, detail |-> "No subjects selected"]
    ELSE IF req.seasons = <<>>
    THEN [raised |-> TRUE, status_code |-> 400, detail |-> "No seasons selected"]
    ELSE [raised |-> FALSE, status_code |-> 0, detail |-> None]

(* The handler's "except Exception as e": whatever the body raised, the   *)
(* validation's HTTPException included, leaves as an HTTPException 500    *)
(* whose detail is the prefix followed by str(e).                          *)
ExceptException(prefix, e) ==
    [status_code |-> 500, detail |-> <<prefix, e.status_code, e.detail>>]

(* POST /bulk with the body req. *)
start_bulk_download_request(j, req) ==
    /\ Idle
    /\ ~Exists(j)
    /\ \A k \in JobIds : k < j => Exists(k)
    /\ request' = req
    /\ IF Validate(req).raised
       THEN /\ response' =
                  LET raised == ExceptException("Error starting download", Validate(req))
                  IN Reply("bulk", 1, 0, raised.status_code, "none", Detail(raised.detail))
            /\ UNCHANGED <<download_jobs, job_files, pc, history>>
       ELSE /\ download_jobs' = [download_jobs EXCEPT ![j] =
                  [NewJobData("zip") EXCEPT
                      !.status = "initializing",
                      !.message = Msg("Starting download... Please wait.", 0, 0)]]
            /\ create_download_job_write(j, "zip")
            /\ pc' = [pc EXCEPT ![j] = "scheduled"]
            /\ history' = [history EXCEPT ![j] = <<"pending", "initializing">>]
            /\ response' = Reply("bulk", 1, j, 202, "memory", [status |-> "initializing"])
    /\ UNCHANGED <<storage, filepath, cache, clock, tasks, completed_q, semaphore, workdir, archive, worker_jobs>>

(* POST /direct with the body req. *)
start_direct_download_request(j, req) ==
    /\ Idle
    /\ ~Exists(j)
    /\ \A k \in JobIds : k < j => Exists(k)
    /\ request' = req
    /\ IF Validate(req).raised
       THEN /\ response' =
                  LET raised == ExceptException("Error starting direct download",
                                                Validate(req))
                  IN Reply("direct", 1, 0, raised.status_code, "none", Detail(raised.detail))
            /\ UNCHANGED <<download_jobs, job_files, pc, history>>
       ELSE /\ download_jobs' = [download_jobs EXCEPT ![j] = NewJobData("direct")]
            /\ create_download_job_write(j, "direct")
            /\ pc' = [pc EXCEPT ![j] = "scheduled"]
            /\ history' = [history EXCEPT ![j] = <<"pending">>]
            /\ response' = Reply("direct", 1, j, 202, "memory", [status |-> "pending"])
    /\ UNCHANGED <<storage, filepath, cache, clock, tasks, completed_q, semaphore, workdir, archive, worker_jobs>>

NothingFound == [total_files |-> 0, errors |-> 0]

(* Lines 104-165 of download_bulk_files on the job's request. *)
bulk_collect_request(j) ==
    IF \E i \in DOMAIN request.seasons : SplitRaises(request.seasons[i])
    THEN bulk_collect_raises(j, 0)
    ELSE LET found == CollectSubjects(request.subjects, request.seasons, NothingFound)
         IN bulk_collect(j, found.total_files, found.errors)

(* download_direct_files on the job's request. *)
download_direct_files_request(j) ==
    IF \E i \in DOMAIN request.seasons : SplitRaises(request.seasons[i])
    THEN direct_parse_raises(j)
    ELSE LET found == CollectSubjects(request.subjects, request.seasons, NothingFound)
         IN download_direct_files(j, found.total_files, found.errors)

(* One create request, any within the bounds, and the task of the job it  *)
(* creates up to the end of collection.                                    *)
NextCollect ==
    \E j \in Solo :
        \/ request = NoRequest /\ \E req \in Requests : start_bulk_download_request(j, req)
        \/ request = NoRequest /\ \E req \in Requests : start_direct_download_request(j, req)
        \/ bulk_begin(j)
        \/ request # NoRequest /\ bulk_collect_request(j)
        \/ request # NoRequest /\ download_direct_files_request(j)

SpecCollect == Init /\ [][NextCollect]_vars

(***************************************************************************)
(* The job directory losing and regaining its write permission, as on a   *)
(* read-only deployment: every write into it raises PermissionError while *)
(* storage is "denied".                                                    *)
(***************************************************************************)
storage_denied ==
    /\ storage = "ok"
    /\ storage' = "denied"
    /\ UNCHANGED <<download_jobs, job_files, pc, tasks, completed_q, semaphore, workdir,
                   archive, history, worker_jobs, request, response, filepath, cache, clock>>

storage_restored ==
    /\ storage = "denied"
    /\ storage' = "ok"
    /\ UNCHANGED <<download_jobs, job_files, pc, tasks, completed_q, semaphore, workdir,
                   archive, history, worker_jobs, request, response, filepath, cache, clock>>

(* The task of an archive-mode job whose site lookups and archive build   *)
(* succeed.                                                                *)
SteadyStep(j) ==
    \/ bulk_begin(j)
    \/ \E n \in 0..MaxFiles : bulk_collect(j, n, 0)
    \/ \E f \in 1..MaxFiles : acquire(j, f)
    \/ \E f \in 1..MaxFiles, o \in Responses : fetch_returns(j, f, o)
    \/ process_result(j)
    \/ bulk_mark_creating_zip(j)
    \/ bulk_complete(j)

(* The task of a direct-mode job whose site lookups succeed. *)
LinkStep(j) == \E n \in 0..MaxFiles : download_direct_files(j, n, 0)

(* One job of either mode whose site lookups, fetches and archive build   *)
(* succeed, while the job directory comes and goes.                        *)
NextStorage ==
    \/ storage_denied
    \/ storage_restored
    \/ \E j \in Solo : start_bulk_download(j) \/ start_direct_download(j) \/ SteadyStep(j) \/ LinkStep(j)

FairSpecStorage == Init /\ [][NextStorage]_vars /\ \A j \in Solo : WF_vars(SteadyStep(j) \/ LinkStep(j))

(* One such job, and DELETE /{job_id} arriving at any point of it. *)
NextDelete == \E j \in Solo : start_bulk_download(j) \/ SteadyStep(j) \/ delete_job(j)

FairSpecDelete == Init /\ [][NextDelete]_vars /\ \A j \in Solo : WF_vars(SteadyStep(j))

(***************************************************************************)
(* The destination path of a file, download_bulk_files lines 135-141.  A  *)
(* name is a string, modelled as the sequence of its characters: a        *)
(* letter, the dot and the two separators are the characters that matter. *)
(* The subject and season names are the link texts of the site, stripped; *)
(* the file name is the last "/"-separated part of the file's URL.         *)
(***************************************************************************)
MaxName == 2

Chars == {"a", ".", "/", "\\"}

Names == SeqsUpTo(Chars, MaxName)

FileNames == {<<"a">>}

(* str.replace for a one-character old and new. *)
replace(name, old, new) == [i \in DOMAIN name |-> IF name[i] = old THEN new ELSE name[i]]

(* name.replace("/", "-").replace("\\", "-") *)
safe_name(name) == replace(replace(name, "/", "-"), "\\", "-")

(* pathlib on a POSIX system: an operand of "/" is split at every "/",    *)
(* and its empty parts and its "." parts are dropped; ".." is kept.       *)
RECURSIVE SplitAtSlash(_)
SplitAtSlash(name) ==
    IF name = <<>> THEN << <<>> >>
    ELSE LET rest == SplitAtSlash(Tail(name))
         IN  IF Head(name) = "/"
             THEN << <<>> >> \o rest
             ELSE << <<Head(name)>> \o Head(rest) >> \o Tail(rest)

Kept(part) == part # <<>> /\ part # <<".">>

PathParts(name) == SelectSeq(SplitAtSlash(name), Kept)

(* Path(TEMP_DOWNLOAD_DIR) / job_id / a / b / c, as the parts below       *)
(* <temp-root>/<job_id>.                                                   *)
RECURSIVE JoinPath(_)
JoinPath(operands) ==
    IF operands = <<>> THEN <<>>
    ELSE PathParts(Head(operands)) \o JoinPath(Tail(operands))

(* Lines 138-141 for one file of the listing. *)
destination(subject_name, season_name, filename) ==
    /\ filepath = NoPath
    /\ LET safe_subject_name == safe_name(subject_name)
           safe_season_name == safe_name(season_name)
       IN filepath' = [subject_name |-> subject_name,
                       season_name |-> season_name,
                       filename |-> filename,
                       safe_subject_name |-> safe_subject_name,
                       safe_season_name |-> safe_season_name,
                       parts |-> JoinPath(<<safe_subject_name, safe_season_name, filename>>)]
    /\ UNCHANGED <<download_jobs, job_files, pc, tasks, completed_q, semaphore, workdir,
                   archive, history, worker_jobs, request, response, storage, cache, clock>>

NextPath ==
    \E subject_name \in Names, season_name \in Names, filename \in FileNames :
        destination(subject_name, season_name, filename)

SpecPath == Init /\ [][NextPath]_vars

(***************************************************************************)
(* The metadata caches, cache_service.py.  An entry holds a payload and   *)
(* the time it expires at; the functions below take the caches and the    *)
(* reading of datetime.now() and give the caches they leave, and for a    *)
(* get the value it returns.                                               *)
(***************************************************************************)
MaxClock == 3

Payloads == {"p", "q"}

(* ttl_hours, a parameter of every set. *)
TtlHours == {1, 2}

Entry(data, expires_at) == [data |-> data, expires_at |-> expires_at]

Evicted(table, key) == [table EXCEPT ![key] = NoEntry]

get_seasons_cached(c, cache_key, now) ==
    IF c.seasons[cache_key] # NoEntry
    THEN IF now < c.seasons[cache_key].expires_at
         THEN [result |-> c.seasons[cache_key].data, cache |-> c]
         ELSE [result |-> None, cache |-> [c EXCEPT !.seasons = Evicted(@, cache_key)]]
    ELSE [result |-> None, cache |-> c]

set_seasons_cache(c, cache_key, seasons, ttl_hours, now) ==
    [c EXCEPT !.seasons[cache_key] = Entry(seasons, now + ttl_hours)]

get_file_count_cached(c, season_url, now) ==
    IF c.file_count[season_url] # NoEntry
    THEN IF now < c.file_count[season_url].expires_at
         THEN [result |-> c.file_count[season_url].data, cache |-> c]
         ELSE [result |-> None, cache |-> [c EXCEPT !.file_count = Evicted(@, season_url)]]
    ELSE [result |-> None, cache |-> c]

set_file_count_cache(c, season_url, count, ttl_hours, now) ==
    [c EXCEPT !.file_count[season_url] = Entry(count, now + ttl_hours)]

get_subjects_cached(c, qualification_id, now) ==
    IF c.subjects[qualification_id] # NoEntry
    THEN IF now < c.subjects[qualification_id].expires_at
         THEN [result |-> c.subjects[qualification_id].data, cache |-> c]
         ELSE [result |-> None, cache |-> [c EXCEPT !.subjects = Evicted(@, qualification_id)]]
    ELSE [result |-> None, cache |-> c]

set_subjects_cache(c, qualification_id, subjects, ttl_hours, now) ==
    [c EXCEPT !.subjects[qualification_id] = Entry(subjects, now + ttl_hours)]

(* The one get that deletes nothing: past its expiry the summary stays in *)
(* the module's globals.                                                   *)
get_qualifications_cached(c, now) ==
    IF c.qualifications # NoEntry /\ now < c.qualifications.expires_at
    THEN [result |-> c.qualifications.data, cache |-> c]
    ELSE [result |-> None, cache |-> c]

set_qualifications_cache(c, qualifications, ttl_hours, now) ==
    [c EXCEPT !.qualifications = Entry(qualifications, now + ttl_hours)]

(* clear_cache, lines 108-111: the season lists and the file counts. *)
clear_cache(c) ==
    [c EXCEPT !.seasons = [k \in SeasonKeys |-> NoEntry],
              !.file_count = [k \in CountKeys |-> NoEntry]]

Expired(entry, now) == entry # NoEntry /\ now >= entry.expires_at

Swept(table, now) == [k \in DOMAIN table |-> IF Expired(table[k], now) THEN NoEntry ELSE table[k]]

(* A sweep that keeps the entries expiring at this very time. *)
clear_expired_cache_keeps_due(c, now) ==
    LET late(entry) == entry # NoEntry /\ now > entry.expires_at
        swept(table) == [k \in DOMAIN table |-> IF late(table[k]) THEN NoEntry ELSE table[k]]
    IN [seasons        |-> swept(c.seasons),
        file_count     |-> swept(c.file_count),
        subjects       |-> swept(c.subjects),
        qualifications |-> IF late(c.qualifications) THEN NoEntry ELSE c.qualifications]

(* clear_expired_cache, lines 183-215. *)
clear_expired_cache(c, now) ==
    [seasons        |-> Swept(c.seasons, now),
     file_count     |-> Swept(c.file_count, now),
     subjects       |-> Swept(c.subjects, now),
     qualifications |-> IF Expired(c.qualifications, now) THEN NoEntry ELSE c.qualifications]

(* The rest of the program is left alone by the cache's operations. *)
CacheOnly ==
    UNCHANGED <<download_jobs, job_files, pc, tasks, completed_q, semaphore, workdir,
                archive, history, worker_jobs, request, response, storage, filepath>>

(* One call of each function of the module, at the current time. *)
GetSeasons(k) ==
    /\ cache' = get_seasons_cached(cache, k, clock).cache
    /\ UNCHANGED clock /\ CacheOnly

SetSeasons(k, payload, ttl) ==
    /\ cache' = set_seasons_cache(cache, k, payload, ttl, clock)
    /\ UNCHANGED clock /\ CacheOnly

GetFileCount(k) ==
    /\ cache' = get_file_count_cached(cache, k, clock).cache
    /\ UNCHANGED clock /\ CacheOnly

SetFileCount(k, payload, ttl) ==
    /\ cache' = set_file_count_cache(cache, k, payload, ttl, clock)
    /\ UNCHANGED clock /\ CacheOnly

GetSubjects(k) ==
    /\ cache' = get_subjects_cached(cache, k, clock).cache
    /\ UNCHANGED clock /\ CacheOnly

SetSubjects(k, payload, ttl) ==
    /\ cache' = set_subjects_cache(cache, k, payload, ttl, clock)
    /\ UNCHANGED clock /\ CacheOnly

GetQualifications ==
    /\ cache' = get_qualifications_cached(cache, clock).cache
    /\ UNCHANGED clock /\ CacheOnly

SetQualifications(payload, ttl) ==
    /\ cache' = set_qualifications_cache(cache, payload, ttl, clock)
    /\ UNCHANGED clock /\ CacheOnly

ClearCache ==
    /\ cache' = clear_cache(cache)
    /\ UNCHANGED clock /\ CacheOnly

ClearExpiredCache ==
    /\ cache' = clear_expired_cache(cache, clock)
    /\ UNCHANGED clock /\ CacheOnly

(* Time passes: datetime.now() is read as never going back. *)
Tick ==
    /\ clock < MaxClock
    /\ clock' = clock + 1
    /\ UNCHANGED cache /\ CacheOnly

NextCache ==
    \/ \E k \in SeasonKeys : GetSeasons(k)
    \/ \E k \in SeasonKeys, payload \in Payloads, ttl \in TtlHours : SetSeasons(k, payload, ttl)
    \/ \E k \in CountKeys : GetFileCount(k)
    \/ \E k \in CountKeys, payload \in Payloads, ttl \in TtlHours : SetFileCount(k, payload, ttl)
    \/ \E k \in SubjectKeys : GetSubjects(k)
    \/ \E k \in SubjectKeys, payload \in Payloads, ttl \in TtlHours : SetSubjects(k, payload, ttl)
    \/ GetQualifications
    \/ \E payload \in Payloads, ttl \in TtlHours : SetQualifications(payload, ttl)
    \/ ClearCache
    \/ ClearExpiredCache
    \/ Tick

SpecCache == Init /\ [][NextCache]_vars

(***************************************************************************)
(* Vocabulary of the properties.                                           *)
(***************************************************************************)
Range(seq) == {seq[i] : i \in DOMAIN seq}

RECURSIVE IsSubsequence(_, _)
IsSubsequence(part, whole) ==
    IF part = <<>> THEN TRUE
    ELSE IF whole = <<>> THEN FALSE
    ELSE IF Head(part) = Head(whole) THEN IsSubsequence(Tail(part), Tail(whole))
    ELSE IsSubsequence(part, Tail(whole))

InFlight(j) == Cardinality({f \in DOMAIN tasks[j] : tasks[j][f].st = "in_flight"})
Queued(j, f) == f \in DOMAIN tasks[j] /\ tasks[j][f].st = "queued"
Admitted(j, f) == f \in DOMAIN tasks[j] /\ tasks[j][f].st = "in_flight"
FailedFetches(j) == {f \in DOMAIN tasks[j] : tasks[j][f].outcome \notin {None, "200"}}

(* 100 * current_file / total_files, or 0 when total_files is 0. *)
ExpectedPercentage(job) ==
    IF job.total_files = 0 THEN Pct(0, 1) ELSE Pct(100 * job.current_file, job.total_files)

(* The lifecycle order of the statuses. *)
Phase(status) ==
    CASE status \in {"pending", "initializing"} -> 0
      [] status = "collecting_files" -> 1
      [] status = "ready" -> 2
      [] status = "downloading" -> 3
      [] status = "creating_zip" -> 4
      [] status \in {"completed", "failed"} -> 5

Terminal == {"completed", "failed"}

(***************************************************************************)
(* C1.  current_file never exceeds total_files, in the in-memory record   *)
(* and in the durable record, before and after the collection phase sets  *)
(* total_files, for every number of files and every completion order.     *)
(***************************************************************************)
C1_CurrentFileWithinTotal ==
    \A j \in JobIds :
        /\ Exists(j) => download_jobs[j].current_file <= download_jobs[j].total_files
        /\ job_files[j] # NoJob => job_files[j].current_file <= job_files[j].total_files

C1_Witness ==
    \E j \in JobIds :
        /\ Exists(j)
        /\ pc[j] = "closing"
        /\ download_jobs[j].total_files >= 3
        /\ download_jobs[j].current_file = download_jobs[j].total_files
        /\ download_jobs[j].downloaded_files = <<3, 1>>

(***************************************************************************)
(* C2.  Whenever a status query can run (the event loop is free) and the  *)
(* job's status is "downloading", percentage equals                        *)
(* 100 * current_file / total_files, or 0 when total_files is 0.           *)
(***************************************************************************)
C2_PercentageTracksProgress ==
    \A j \in JobIds :
        (Idle /\ Exists(j) /\ download_jobs[j].status = "downloading")
            => PctEq(download_jobs[j].percentage, ExpectedPercentage(download_jobs[j]))

(***************************************************************************)
(* C3.  From one state of a job to the next, current_file and percentage  *)
(* never decrease.                                                         *)
(***************************************************************************)
C3_ProgressNeverDecreases ==
    [][\A j \in JobIds :
        (Exists(j) /\ download_jobs'[j] # NoJob) =>
            /\ download_jobs[j].current_file <= download_jobs'[j].current_file
            /\ PctLeq(download_jobs[j].percentage, download_jobs'[j].percentage)]_vars

(***************************************************************************)
(* C4.  No step moves a job's status to an earlier phase of the           *)
(* lifecycle, and no step changes a status that is "completed" or         *)
(* "failed".                                                               *)
(***************************************************************************)
C4_StatusMonotonic ==
    [][\A j \in JobIds :
        (Exists(j) /\ download_jobs'[j] # NoJob) =>
            /\ Phase(download_jobs[j].status) <= Phase(download_jobs'[j].status)
            /\ download_jobs[j].status \in Terminal
                  => download_jobs'[j].status = download_jobs[j].status]_vars

(***************************************************************************)
(* C5.  An archive-mode job that found at least one file eventually is    *)
(* "completed" with percentage 100, completed_at, zip_path and            *)
(* zip_filename set, and its status went through collecting_files,        *)
(* downloading, creating_zip and completed in that order.                  *)
(***************************************************************************)
FilesFound(j) ==
    /\ Exists(j)
    /\ download_jobs[j].download_method = "zip"
    /\ pc[j] = "fetching"

CompletedWithArchive(j) ==
    /\ Exists(j)
    /\ download_jobs[j].status = "completed"
    /\ PctEq(download_jobs[j].percentage, Pct(100, 1))
    /\ download_jobs[j].completed_at # None
    /\ download_jobs[j].zip_path # None
    /\ download_jobs[j].zip_filename # None
    /\ IsSubsequence(<<"collecting_files", "downloading", "creating_zip", "completed">>,
                     history[j])

ArchiveRaised(j) == pc[j] = "crashed" /\ "creating_zip" \in Range(history[j])

C6_ZeroFilesFails ==
    \A j \in JobIds :
        (Exists(j) /\ pc[j] = "returned" /\ download_jobs[j].total_files = 0)
            => /\ "failed" \in Range(history[j])
               /\ "downloading" \notin Range(history[j])

(***************************************************************************)
(* C7.  When the task of an archive-mode job with N files, K of whose     *)
(* fetches returned failure, has returned, the job has been "completed",  *)
(* downloaded_files has N-K entries, failed_files has K and current_file  *)
(* is N.                                                                   *)
(***************************************************************************)
C7_ResultCounts ==
    \A j \in JobIds :
        (Exists(j) /\ download_jobs[j].download_method = "zip"
                   /\ pc[j] = "returned" /\ Len(tasks[j]) >= 1)
            => LET N == Len(tasks[j])
                   K == Cardinality(FailedFetches(j))
               IN /\ "completed" \in Range(history[j])
                  /\ Len(download_jobs[j].downloaded_files) = N - K
                  /\ Len(download_jobs[j].failed_files) = K
                  /\ download_jobs[j].current_file = N

C7_Witness ==
    \E j \in JobIds :
        /\ Exists(j)
        /\ download_jobs[j].status = "completed"
        /\ Len(tasks[j]) >= 2
        /\ Cardinality(FailedFetches(j)) = Len(tasks[j])

(***************************************************************************)
(* C8.  Within one job the fetches past the gate never number more than   *)
(* MAX_CONCURRENT_DOWNLOADS, and a fetch waiting at the gate is           *)
(* eventually admitted.                                                    *)
(***************************************************************************)
C8_ConcurrencyGate ==
    /\ [](\A j \in JobIds : InFlight(j) <= MAX_CONCURRENT_DOWNLOADS)
    /\ \A j \in Solo, f \in 1..MaxFiles :
           Queued(j, f) ~> Admitted(j, f)

C8_Witness ==
    \E j \in JobIds :
        /\ InFlight(j) = MAX_CONCURRENT_DOWNLOADS
        /\ semaphore[j] = 0
        /\ \E f \in DOMAIN tasks[j] : Queued(j, f)

(***************************************************************************)
(* C9.  Summed over all the jobs of the process, the fetches past the     *)
(* gate never number more than MAX_CONCURRENT_DOWNLOADS.                   *)
(***************************************************************************)
RECURSIVE TotalInFlight(_)
TotalInFlight(J) ==
    IF J = {} THEN 0
    ELSE LET j == CHOOSE k \in J : TRUE IN InFlight(j) + TotalInFlight(J \ {j})

C9_ProcessWideGate == TotalInFlight(JobIds) <= MAX_CONCURRENT_DOWNLOADS

(***************************************************************************)
(* C10.  Whatever a fetch meets, download_file_async returns it as a      *)
(* result and raises nothing: success for a 200 whose body was written,   *)
(* (False, reason) for everything else.  A failed fetch does not end the  *)
(* task: the task never stops during the fetch phase, every file of the   *)
(* job is fetched and recorded before the archive step, and a task that   *)
(* has returned has completed the job.                                     *)
(***************************************************************************)
C10_FetchFailuresAreContained ==
    \A j \in JobIds : Exists(j) =>
        /\ \A f \in DOMAIN tasks[j] :
              tasks[j][f].outcome # None =>
                  LET r == download_file_async(tasks[j][f].outcome)
                  IN /\ ~r.raised
                     /\ r.success <=> tasks[j][f].outcome = "200"
                     /\ ~r.success => r.error # None
        /\ pc[j] = "crashed" => download_jobs[j].status # "downloading"
        /\ pc[j] \in {"closing", "zipping"} \/ (pc[j] = "returned" /\ Len(tasks[j]) >= 1)
              => /\ \A f \in DOMAIN tasks[j] : tasks[j][f].st = "recorded"
                 /\ download_jobs[j].current_file = Len(tasks[j])
        /\ pc[j] = "returned" /\ Len(tasks[j]) >= 1
              => download_jobs[j].status = "completed"

C10_Witness ==
    \E j \in JobIds :
        /\ Exists(j)
        /\ download_jobs[j].status = "completed"
        /\ Len(tasks[j]) >= 3
        /\ tasks[j][1].outcome = "os_error"
        /\ tasks[j][2].outcome = "timeout"
        /\ download_jobs[j].downloaded_files = <<3>>
        /\ Len(download_jobs[j].failed_files) = 2

(***************************************************************************)
(* C11.  Every file handed to the fetch phase is fetched once and its     *)
(* result recorded once: a fetch task only ever moves one stage forward    *)
(* (waiting, past the gate, returned, recorded), so none is retried or    *)
(* skipped; no file is ever listed more than once in downloaded_files and *)
(* failed_files together; and when the job is "completed" every file is   *)
(* listed exactly once.                                                    *)
(***************************************************************************)
TaskStage(st) ==
    CASE st = "queued" -> 0
      [] st = "in_flight" -> 1
      [] st = "returned" -> 2
      [] st = "recorded" -> 3

Listings(job, f) ==
    Cardinality({i \in DOMAIN job.downloaded_files : job.downloaded_files[i] = f})
    + Cardinality({i \in DOMAIN job.failed_files : job.failed_files[i].filename = f})

C11_EachFileOnce ==
    /\ [](\A j \in JobIds : Exists(j) =>
            \A f \in DOMAIN tasks[j] :
                /\ Listings(download_jobs[j], f) <= 1
                /\ download_jobs[j].status = "completed"
                      => /\ Listings(download_jobs[j], f) = 1
                         /\ tasks[j][f].st = "recorded")
    /\ [][\A j \in JobIds : \A f \in DOMAIN tasks[j] :
            /\ f \in DOMAIN tasks'[j]
            /\ TaskStage(tasks'[j][f].st) \in
                   {TaskStage(tasks[j][f].st), TaskStage(tasks[j][f].st) + 1}]_vars

C11_Witness ==
    \E j \in JobIds :
        /\ Exists(j)
        /\ download_jobs[j].status = "completed"
        /\ Len(tasks[j]) >= 3
        /\ download_jobs[j].downloaded_files = <<3, 2>>
        /\ Len(download_jobs[j].failed_files) = 1
        /\ download_jobs[j].failed_files[1].filename = 1

(***************************************************************************)
(* C12.  When a job id is in neither the table of the worker that takes   *)
(* the request nor the durable store, each of the job operations          *)
(* (progress, status, archive retrieval, start-direct, delete) answers    *)
(* 404 "not found" and leaves both tables, the durable store, the working *)
(* directories and the archives as they were.                              *)
(***************************************************************************)
JobOps == {"progress", "status", "zip", "start-direct", "delete"}

Unknown(w, j) == Table(w)[j] = NoJob /\ job_files[j] = NoJob

(* The step is the answer of worker w to an operation on job j. *)
Answers(w, j) ==
    /\ response' # response
    /\ response'.op \in JobOps
    /\ response'.worker = w
    /\ response'.job_id = j

C12_UnknownJobNotFound ==
    [][\A w \in Workers, j \in JobIds :
          (Unknown(w, j) /\ Answers(w, j)) =>
              /\ response'.status_code = 404
              /\ response'.body = Detail("Job not found")
              /\ download_jobs' = download_jobs
              /\ worker_jobs' = worker_jobs
              /\ job_files' = job_files
              /\ workdir' = workdir
              /\ archive' = archive]_vars

C12_Witness ==
    /\ response # NoResponse
    /\ response.op = "delete"
    /\ response.status_code = 404
    /\ Unknown(response.worker, response.job_id)
    /\ \E j \in JobIds : Exists(j) /\ download_jobs[j].status = "completed"
                                   /\ workdir[j] # {}

(***************************************************************************)
(* C13.  A progress or status query is read-only and idempotent.  Asked   *)
(* again in the state the query leaves, with nothing in between, the same *)
(* query returns the same data and changes nothing: this holds when the   *)
(* first answer came from memory and when it was loaded from the durable  *)
(* store.  The query itself changes no field of the job: the record the   *)
(* table held stays as it was, a record loaded from the store is kept as  *)
(* read, and the store, the other worker's table, the task, the working   *)
(* directory and the archive are untouched.                                *)
(***************************************************************************)
QueryOps == {"progress", "status"}

QueryBody(op, job) == IF op = "progress" THEN DownloadProgress(job) ELSE JobStatus(job)

(* The response the query op for job j would get from worker w now. *)
QueryAnswer(op, w, j) ==
    LET got == get_job_status(Table(w), j)
    IN [status_code |-> IF got.job = NoJob THEN 404 ELSE 200,
        body |-> IF got.job = NoJob THEN Detail("Job not found") ELSE QueryBody(op, got.job),
        table |-> got.table]

C13_QueriesReadOnlyIdempotent ==
    [][\A w \in Workers, j \in JobIds :
          (Answers(w, j) /\ response'.op \in QueryOps) =>
              /\ \A op \in QueryOps : response'.op = op =>
                    LET again == QueryAnswer(op, w, j)'
                    IN /\ response'.status_code = again.status_code
                       /\ response'.body = again.body
                       /\ Table(w)' = again.table
              /\ \A k \in JobIds : k # j => Table(w)'[k] = Table(w)[k]
              /\ Table(w)'[j] = IF Table(w)[j] # NoJob THEN Table(w)[j]
                                ELSE IF response'.status_code = 200 THEN job_files[j]
                                ELSE NoJob
              /\ \A v \in Workers : v # w => Table(v)' = Table(v)
              /\ UNCHANGED <<job_files, pc, tasks, completed_q, semaphore, workdir,
                             archive, history>>]_vars

C13_Witness ==
    /\ response # NoResponse
    /\ response.op = "progress"
    /\ response.worker = 2
    /\ response.source = "disk"
    /\ response.status_code = 200
    /\ response.body.status = "downloading"
    /\ worker_jobs[response.job_id] # download_jobs[response.job_id]
    /\ response = [response EXCEPT !.body = QueryAnswer("progress", 2, response.job_id).body]

(***************************************************************************)
(* C14.  A create request whose subject list or season list is empty is   *)
(* answered with a status code of the 4xx class and a message, no job     *)
(* record is created in memory or in the durable store, and no task is    *)
(* scheduled.                                                              *)
(***************************************************************************)
EmptySelection(req) == req.subjects = <<>> \/ req.seasons = <<>>

C14_EmptySelectionRejected ==
    (request # NoRequest /\ EmptySelection(request)) =>
        /\ response.status_code \in 400..499
        /\ response.body.detail # None
        /\ \A j \in JobIds : ~Exists(j) /\ job_files[j] = NoJob /\ pc[j] = "none"

(***************************************************************************)
(* C15.  A create request with a season selector that has no ':' creates  *)
(* no job, in memory or in the durable store, and no task ever runs for   *)
(* it, so that no job ends in a status that is not final because of the   *)
(* selector.                                                               *)
(***************************************************************************)
Malformed(req) == \E i \in DOMAIN req.seasons : SplitRaises(req.seasons[i])

C15_MalformedSelectorRejected ==
    (request # NoRequest /\ Malformed(request)) =>
        \A j \in JobIds :
            /\ ~Exists(j)
            /\ job_files[j] = NoJob
            /\ pc[j] = "none"

(***************************************************************************)
(* C16.  When an exception escapes the background task of a job (a        *)
(* subject or season lookup raising during collection, a selector that    *)
(* does not parse, the archive build raising), the job's status           *)
(* eventually is "failed": the job does not stay in "collecting_files",   *)
(* "downloading" or "creating_zip" for ever.                               *)
(***************************************************************************)
TaskRaised(j) == pc[j] = "crashed"

C16_EscapedExceptionFailsJob ==
    \A j \in Solo :
        TaskRaised(j) ~> (Exists(j) /\ download_jobs[j].status = "failed")

(***************************************************************************)
(* C17.  In the collection of a well-formed request, every (subject,      *)
(* season) pair whose locator raises adds exactly one error string to the *)
(* job's errors and nothing else happens to the collection: the task does *)
(* not end there, total_files counts the papers of every other selected   *)
(* season that resolves, and an archive-mode job that found a file is     *)
(* "downloading" with its fetches started.                                 *)
(***************************************************************************)
(* The places <<i, k>> of a request at which subject i is listed,         *)
(* selector k selects it and names one of its seasons.                     *)
Visits(req) ==
    {v \in (DOMAIN req.subjects) \X (DOMAIN req.seasons) :
        /\ ~SplitRaises(req.seasons[v[2]])
        /\ req.seasons[v[2]][1] = req.subjects[v[1]]
        /\ get_subject_by_code(req.subjects[v[1]]) # None
        /\ get_season_by_id(req.seasons[v[2]][1], req.seasons[v[2]][2]) # None}

PageOf(req, v) == get_season_by_id(req.seasons[v[2]][1], req.seasons[v[2]][2])

LocatorRaised(req) == {v \in Visits(req) : get_exams(PageOf(req, v)).raised}

RECURSIVE PapersOf(_, _)
PapersOf(req, V) ==
    IF V = {} THEN 0
    ELSE LET v == CHOOSE x \in V : TRUE
         IN get_exams(PageOf(req, v)).count + PapersOf(req, V \ {v})

Collected(j) == Exists(j) /\ pc[j] \in {"fetching", "returned"}

C17_LocatorErrorsAreContained ==
    \A j \in JobIds :
        (Exists(j) /\ request # NoRequest /\ ~Malformed(request)) =>
            /\ pc[j] # "crashed"
            /\ Collected(j) =>
                  /\ Len(download_jobs[j].errors) = Cardinality(LocatorRaised(request))
                  /\ \A i \in DOMAIN download_jobs[j].errors :
                        download_jobs[j].errors[i] = "Error getting files"
                  /\ download_jobs[j].total_files = PapersOf(request, Visits(request))
                  /\ (download_jobs[j].download_method = "zip"
                        /\ download_jobs[j].total_files > 0)
                        => /\ download_jobs[j].status = "downloading"
                           /\ pc[j] = "fetching"
                           /\ Len(tasks[j]) = download_jobs[j].total_files

C17_Witness ==
    \E j \in JobIds :
        /\ Collected(j)
        /\ request # NoRequest
        /\ request.seasons = << <<"9700", "2024">>, <<"9700", "2023">> >>
        /\ download_jobs[j].errors = <<"Error getting files">>
        /\ download_jobs[j].total_files = 2
        /\ download_jobs[j].status = "downloading"

(***************************************************************************)
(* C18.  A subject code the qualification does not list, or a season id   *)
(* the subject does not have, is passed over in silence.  For a           *)
(* well-formed request that names one, the task does not end in           *)
(* collection, and when collection is over the job has the errors and the *)
(* total_files of the same request without the names that do not resolve: *)
(* they add no error and no file, and what the other names select is      *)
(* collected.                                                              *)
(***************************************************************************)
Resolves(req) ==
    [subjects |-> SelectSeq(req.subjects, LAMBDA code : get_subject_by_code(code) # None),
     seasons  |-> SelectSeq(req.seasons,
                            LAMBDA key : get_season_by_id(key[1], key[2]) # None)]

C18_UnresolvedNamesAreSkipped ==
    \A j \in JobIds :
        (Exists(j) /\ request # NoRequest /\ ~Malformed(request)
                   /\ Resolves(request) # request) =>
            /\ pc[j] # "crashed"
            /\ Collected(j) =>
                  LET rest == Resolves(request)
                  IN /\ Len(download_jobs[j].errors) = Cardinality(LocatorRaised(rest))
                     /\ download_jobs[j].total_files = PapersOf(rest, Visits(rest))
                     /\ download_jobs[j].status =
                           IF download_jobs[j].download_method = "direct" THEN "ready"
                           ELSE IF PapersOf(rest, Visits(rest)) > 0 THEN "downloading"
                           ELSE "failed"

C18_Witness ==
    \E j \in JobIds :
        /\ Collected(j)
        /\ request # NoRequest
        /\ request.subjects = <<"0000", "9700">>
        /\ request.seasons = << <<"9700", "1999">>, <<"9700", "2023">> >>
        /\ download_jobs[j].errors = <<>>
        /\ download_jobs[j].total_files = 2
        /\ download_jobs[j].status = "downloading"

(***************************************************************************)
(* C19.  The durable location of a job never holds a partly written       *)
(* record, during the create or during a save, and a worker asked about   *)
(* a job that has been created never answers "not found".                  *)
(***************************************************************************)
C19_DurableWritesAtomic ==
    /\ [](\A j \in JobIds : job_files[j] # Torn)
    /\ [][\A w \in Workers, j \in JobIds :
            (Exists(j) /\ Answers(w, j)) =>
                response'.body # Detail("Job not found")]_vars

(***************************************************************************)
(* C20.  The lookup every operation starts with is a read-through.  When  *)
(* the worker's table holds the job, the answer is made from that record  *)
(* and the store is not read.  When it does not and the durable record    *)
(* reads, the answer is made from the durable record and the table holds  *)
(* it afterwards.  When it does not and there is no durable record, or    *)
(* one that does not read, the answer is "not found" and the table still  *)
(* does not hold the job.                                                  *)
(***************************************************************************)
C20_ReadThroughLookup ==
    [][\A w \in Workers, j \in JobIds :
          Answers(w, j) =>
              LET op == response'.op
                  held == Table(w)[j]
                  stored == job_files[j]
              IN /\ held # NoJob =>
                        /\ response'.source = "memory"
                        /\ op \in QueryOps => response'.body = QueryBody(op, held)
                        /\ job_files' = job_files
                 /\ (held = NoJob /\ stored # NoJob /\ stored # Torn) =>
                        /\ response'.source = "disk"
                        /\ response'.status_code # 404 \/ op = "zip"
                        /\ Table(w)'[j] # NoJob
                        /\ op \in QueryOps =>
                              /\ response'.body = QueryBody(op, stored)
                              /\ Table(w)'[j] = stored
                 /\ (held = NoJob /\ (stored = NoJob \/ stored = Torn)) =>
                        /\ response'.source = "none"
                        /\ response'.status_code = 404
                        /\ Table(w)'[j] = NoJob]_vars

C20_Witness ==
    /\ response # NoResponse
    /\ response.op = "status"
    /\ response.worker = 2
    /\ response.source = "disk"
    /\ response.body.status = "completed"
    /\ worker_jobs[response.job_id] = job_files[response.job_id]
    /\ worker_jobs[response.job_id] # download_jobs[response.job_id]

(***************************************************************************)
(* C21.  A durable write that fails is swallowed.  While the job          *)
(* directory cannot be written, no step changes the durable record, so    *)
(* the record persisted before stays as it was; the task is not ended by  *)
(* the failure; a status query is answered from the in-memory record; and *)
(* the job still runs to the end of its task: an archive-mode job that    *)
(* found files is completed with its archive, one that found none is      *)
(* failed, and a direct-mode job returns with its links.                   *)
(***************************************************************************)
FailedWriteKeepsRecord ==
    storage = "denied" => job_files' = job_files

ServedFromMemory(j) ==
    LET found == get_job_status(download_jobs, j)
    IN  found.source = "memory" /\ found.job = download_jobs[j]

RanToTheEnd(j) ==
    /\ Exists(j)
    /\ pc[j] = "returned"
    /\ \/ CompletedWithArchive(j)
       \/ download_jobs[j].status = "failed" /\ download_jobs[j].total_files = 0
       \/ download_jobs[j].download_method = "direct" /\ download_jobs[j].status = "ready"

C21_PersistenceFailureSwallowed ==
    /\ [][FailedWriteKeepsRecord]_vars
    /\ [](\A j \in Solo : pc[j] # "crashed")
    /\ [](\A j \in Solo : Exists(j) => ServedFromMemory(j))
    /\ \A j \in Solo : Exists(j) ~> RanToTheEnd(j)

(* A job completed in memory none of whose writes reached the disk. *)
C21_Witness ==
    \E j \in Solo :
        /\ CompletedWithArchive(j)
        /\ pc[j] = "returned"
        /\ job_files[j] = NoJob
        /\ storage = "denied"

(***************************************************************************)
(* C22.  Deleting the artifacts of an existing job empties its working    *)
(* directory, marks the record cleaned in memory and on disk, and changes *)
(* nothing else of either record, nor the archive.                         *)
(***************************************************************************)
Deletes(j) ==
    /\ Exists(j)
    /\ ~download_jobs[j].cleaned
    /\ download_jobs'[j] # NoJob
    /\ download_jobs'[j].cleaned

C22_DeleteMarksBothRecords ==
    [][\A j \in Solo :
          Deletes(j) =>
              /\ workdir'[j] = {}
              /\ download_jobs'[j] = [download_jobs[j] EXCEPT !.cleaned = TRUE]
              /\ job_files'[j] = [job_files[j] EXCEPT !.cleaned = TRUE]
              /\ archive' = archive]_vars

(***************************************************************************)
(* C23.  A delete that arrives during the fetch phase leaves the fetches, *)
(* the completion queue, the gate and the task where they are, and the    *)
(* job still has every fetch recorded, current_file equal to total_files  *)
(* and the status "completed" with its archive.                            *)
(***************************************************************************)
DeletedWhileFetching(j) ==
    /\ Exists(j)
    /\ pc[j] = "fetching"
    /\ download_jobs[j].cleaned

FetchedAndCompleted(j) ==
    /\ CompletedWithArchive(j)
    /\ download_jobs[j].current_file = download_jobs[j].total_files
    /\ \A f \in DOMAIN tasks[j] : tasks[j][f].st = "recorded"
    /\ Len(tasks[j]) = download_jobs[j].total_files

C23_DeleteDoesNotInterrupt ==
    /\ [][\A j \in Solo :
             Deletes(j) /\ pc[j] = "fetching" =>
                 UNCHANGED <<pc, tasks, completed_q, semaphore>>]_vars
    /\ \A j \in Solo : DeletedWhileFetching(j) ~> FetchedAndCompleted(j)

(* A completed job of two files or more, deleted after one of its files   *)
(* was fetched and before another was.                                     *)
C23_Witness ==
    \E j \in Solo :
        /\ FetchedAndCompleted(j)
        /\ download_jobs[j].cleaned
        /\ download_jobs[j].total_files >= 2
        /\ archive[j].entries # {}
        /\ ~(Range(download_jobs[j].downloaded_files) \subseteq archive[j].entries)

(***************************************************************************)
(* C24.  The archive of a completed job has an entry for every file named *)
(* in downloaded_files and no entry for anything else, whatever deletes   *)
(* were interleaved with the job.                                          *)
(***************************************************************************)
C24_ArchiveRoundTrip ==
    \A j \in Solo :
        (Exists(j) /\ pc[j] = "returned" /\ archive[j] # NoArchive) =>
            /\ Range(download_jobs[j].downloaded_files) \subseteq archive[j].entries
            /\ archive[j].entries \subseteq Range(download_jobs[j].downloaded_files)

(***************************************************************************)
(* C25.  The archive lies outside the working directory and a delete      *)
(* leaves it alone: when a worker deletes the artifacts of a job whose    *)
(* archive could be retrieved, the archive is still on disk, unchanged,   *)
(* and the retrieval still answers 200 with that archive, at the same     *)
(* worker and at every other.                                              *)
(***************************************************************************)
Retrieval(w, j) == zip_response(w, j, get_job_status(Table(w), j))

DeleteAnswered(w, j) ==
    /\ Answers(w, j)
    /\ response'.op = "delete"
    /\ response'.status_code = 200

C25_ArchiveSurvivesDelete ==
    [][\A d \in Workers, w \in Workers, j \in JobIds :
          LET before == Retrieval(w, j)
          IN  (DeleteAnswered(d, j) /\ before.status_code = 200) =>
                  LET after == Retrieval(w, j)'
                  IN  /\ archive' = archive
                      /\ after.status_code = 200
                      /\ after.body = before.body
                      /\ workdir'[j] = {}]_vars

(* An archive retrieved from a worker that had deleted the job's          *)
(* artifacts before.                                                       *)
C25_Witness ==
    /\ response # NoResponse
    /\ response.op = "zip"
    /\ response.status_code = 200
    /\ Table(response.worker)[response.job_id] # NoJob
    /\ Table(response.worker)[response.job_id].cleaned
    /\ workdir[response.job_id] = {}
    /\ response.body.entries # {}

(***************************************************************************)
(* C26.  GET /{job_id}/zip returns a file only for a job whose record is  *)
(* "completed" with zip_path set and the archive on disk, and the file is *)
(* that archive; and a job that completed in archive mode with its        *)
(* archive on disk is answered with the file whenever it is asked for.    *)
(***************************************************************************)
ZipAnswered(w, j) == Answers(w, j) /\ response'.op = "zip"

CompletedOnDisk(j) ==
    /\ job_files[j] # NoJob
    /\ job_files[j] # Torn
    /\ job_files[j].download_method = "zip"
    /\ job_files[j].status = "completed"
    /\ pc[j] = "returned"
    /\ archive[j] # NoArchive

C26_RetrievalIffCompleted ==
    [][\A w \in Workers, j \in JobIds :
          ZipAnswered(w, j) =>
              /\ response'.status_code = 200 =>
                    /\ Table(w)'[j] # NoJob
                    /\ Table(w)'[j].status = "completed"
                    /\ Table(w)'[j].zip_path # None
                    /\ archive[j] # NoArchive
                    /\ response'.body = archive[j]
              /\ CompletedOnDisk(j) => response'.status_code = 200]_vars

(***************************************************************************)
(* C27.  For every subject name and season name, the sanitized segments   *)
(* hold no "/" and no "\", every such character having become "-", and    *)
(* the destination is <sanitized-subject>/<sanitized-season>/<filename>,  *)
(* three levels below the job's working directory.                         *)
(***************************************************************************)
Sanitized(name, safe) ==
    /\ Len(safe) = Len(name)
    /\ \A i \in DOMAIN name :
          safe[i] = IF name[i] \in {"/", "\\"} THEN "-" ELSE name[i]

(* How far below the working directory the file system puts the path:    *)
(* every ".." goes one level up.                                          *)
RECURSIVE Levels(_)
Levels(parts) ==
    IF parts = <<>> THEN 0
    ELSE (IF Head(parts) = <<".", ".">> THEN -1 ELSE 1) + Levels(Tail(parts))

C27_SanitizedPathIsThreeLevels ==
    filepath # NoPath =>
        /\ Sanitized(filepath.subject_name, filepath.safe_subject_name)
        /\ Sanitized(filepath.season_name, filepath.safe_season_name)
        /\ filepath.parts = <<filepath.safe_subject_name, filepath.safe_season_name,
                              filepath.filename>>
        /\ Levels(filepath.parts) = 3

(* The part of C27 that holds: the sanitized segments are separator-free *)
(* and add no level of their own.                                         *)
C27_SegmentsHaveNoSeparator ==
    filepath # NoPath =>
        /\ Sanitized(filepath.subject_name, filepath.safe_subject_name)
        /\ Sanitized(filepath.season_name, filepath.safe_season_name)
        /\ Len(filepath.parts) <= 3

(***************************************************************************)
(* C28.  A direct-mode job fetches nothing and builds no archive: it has  *)
(* no fetch task, no file in its working directory and no archive, and    *)
(* current_file, downloaded_files, failed_files, zip_path and             *)
(* zip_filename stay at their initial values.  Its collection leaves it   *)
(* "ready" with one link per file found, and it keeps one link per file   *)
(* from then on.  A start-direct call on it changes the status and the    *)
(* message and nothing else.                                               *)
(***************************************************************************)
IsDirect(j) == Exists(j) /\ download_jobs[j].download_method = "direct"

NothingFetched(j) ==
    /\ tasks[j] = <<>>
    /\ workdir[j] = {}
    /\ archive[j] = NoArchive
    /\ download_jobs[j].current_file = NewJobData("direct").current_file
    /\ download_jobs[j].downloaded_files = NewJobData("direct").downloaded_files
    /\ download_jobs[j].failed_files = NewJobData("direct").failed_files
    /\ download_jobs[j].zip_path = NewJobData("direct").zip_path
    /\ download_jobs[j].zip_filename = NewJobData("direct").zip_filename

LinksCollected(j) ==
    /\ pc[j] = "scheduled"
    /\ pc'[j] = "returned"

StartsDirect(j) ==
    /\ pc'[j] = pc[j]
    /\ download_jobs[j].status # "downloading"
    /\ download_jobs'[j].status = "downloading"

C28_DirectJobHoldsLinksOnly ==
    /\ [](\A j \in Solo : IsDirect(j) =>
             /\ NothingFetched(j)
             /\ pc[j] = "returned" =>
                   Len(download_jobs[j].direct_download_urls) = download_jobs[j].total_files)
    /\ [][\A j \in Solo : IsDirect(j) =>
             /\ LinksCollected(j) =>
                   /\ download_jobs'[j].status = "ready"
                   /\ Len(download_jobs'[j].direct_download_urls)
                         = download_jobs'[j].total_files
             /\ StartsDirect(j) =>
                   /\ download_jobs'[j] =
                         [download_jobs[j] EXCEPT
                             !.status = "downloading",
                             !.message = Msg("Downloads started in browser...", 0, 0)]
                   /\ UNCHANGED <<job_files, tasks, workdir, archive>>]_vars

(* A direct-mode job of two files or more, started after it was ready. *)
C28_Witness ==
    \E j \in Solo :
        /\ IsDirect(j)
        /\ pc[j] = "returned"
        /\ download_jobs[j].total_files >= 2
        /\ Len(download_jobs[j].direct_download_urls) = download_jobs[j].total_files
        /\ download_jobs[j].status = "downloading"
        /\ job_files[j].status = "ready"

(***************************************************************************)
(* C29.  The status of a direct-mode job goes through pending,            *)
(* collecting_files, ready, downloading and completed in that order (or   *)
(* ends in "failed"); start-direct is only taken from "ready"; and a      *)
(* started job eventually is "completed".                                  *)
(***************************************************************************)
DirectLifecycle == <<"pending", "collecting_files", "ready", "downloading", "completed">>

IsPrefix(part, whole) ==
    /\ Len(part) <= Len(whole)
    /\ \A i \in DOMAIN part : part[i] = whole[i]

C29_DirectLifecycle ==
    /\ [](\A j \in Solo : IsDirect(j) =>
             \/ IsPrefix(history[j], DirectLifecycle)
             \/ history[j][Len(history[j])] = "failed")
    /\ [][\A j \in Solo :
             (IsDirect(j) /\ StartsDirect(j)) => download_jobs[j].status = "ready"]_vars
    /\ \A j \in Solo :
          (IsDirect(j) /\ download_jobs[j].status = "downloading")
              ~> (IsDirect(j) /\ download_jobs[j].status = "completed")

(* The liveness part of C29 alone: a direct-mode job started from "ready" *)
(* eventually is "completed".                                              *)
C29_StartedJobCompletes ==
    \A j \in Solo :
        (IsDirect(j) /\ pc[j] = "returned" /\ download_jobs[j].status = "downloading")
            ~> (IsDirect(j) /\ download_jobs[j].status = "completed")

(***************************************************************************)
(* C30.  Only the background task of a job changes the fields of its      *)
(* record once it exists: a step that is not a step of the task (it       *)
(* leaves the task's position, its fetches and its completion queue       *)
(* where they are) leaves status, message, the counters and the result    *)
(* lists of the record unchanged.                                          *)
(***************************************************************************)
TaskRests(j) ==
    /\ pc'[j] = pc[j]
    /\ tasks'[j] = tasks[j]
    /\ completed_q'[j] = completed_q[j]

Progress(job) ==
    <<job.status, job.message, job.current_file, job.total_files, job.percentage,
      job.downloaded_files, job.failed_files, job.errors, job.direct_download_urls>>

C30_OnlyTheTaskMutates ==
    [][\A j \in Solo :
          (Exists(j) /\ TaskRests(j)) =>
              Progress(download_jobs'[j]) = Progress(download_jobs[j])]_vars

(***************************************************************************)
(* C31.  From the return of the create request until the background task  *)
(* starts, the job's record is the initial one ("pending", counters zero, *)
(* lists empty, no archive path) in memory and on disk, every status      *)
(* query that finds the job reports "pending", and every status a query   *)
(* ever reports is a state of the lifecycle.                               *)
(***************************************************************************)
LifecycleStates ==
    {"pending", "collecting_files", "downloading", "creating_zip", "ready", "completed",
     "failed"}

Created(j) == pc[j] = "scheduled"

C31_CreatedJobIsPending ==
    /\ [](\A j \in Solo : Created(j) =>
             /\ download_jobs[j] = NewJobData(download_jobs[j].download_method)
             /\ job_files[j] = download_jobs[j])
    /\ [][\A w \in Workers, j \in Solo :
             (Answers(w, j) /\ response'.op \in QueryOps /\ response'.status_code = 200) =>
                 /\ response'.body.status \in LifecycleStates
                 /\ Created(j) => response'.body.status = "pending"]_vars

(***************************************************************************)
(* C32.  In each of the four caches a get returns the stored payload if   *)
(* and only if an entry exists and now is before its expiry; a get at or  *)
(* after the expiry returns nothing and removes the entry, so that a get  *)
(* at any later time returns nothing as well; and a get that follows a    *)
(* set before the expiry returns the payload that was set.                 *)
(***************************************************************************)
CacheKinds == {"seasons", "file_count", "subjects", "qualifications"}

KeysOf(kind) ==
    CASE kind = "seasons" -> SeasonKeys
      [] kind = "file_count" -> CountKeys
      [] kind = "subjects" -> SubjectKeys
      [] kind = "qualifications" -> {"summary"}

Slots == UNION {{<<kind, k>> : k \in KeysOf(kind)} : kind \in CacheKinds}

EntryAt(c, slot) ==
    IF slot[1] = "qualifications" THEN c.qualifications ELSE c[slot[1]][slot[2]]

Get(c, slot, now) ==
    CASE slot[1] = "seasons" -> get_seasons_cached(c, slot[2], now)
      [] slot[1] = "file_count" -> get_file_count_cached(c, slot[2], now)
      [] slot[1] = "subjects" -> get_subjects_cached(c, slot[2], now)
      [] slot[1] = "qualifications" -> get_qualifications_cached(c, now)

Fresh(c, slot, now) == EntryAt(c, slot) # NoEntry /\ now < EntryAt(c, slot).expires_at

Times == 0..(MaxClock + 2)

C32_GetReturnsFreshPayloadOnly ==
    /\ [](\A slot \in Slots :
             LET got == Get(cache, slot, clock)
             IN  /\ Fresh(cache, slot, clock) =>
                       /\ got.result = EntryAt(cache, slot).data
                       /\ got.cache = cache
                 /\ ~Fresh(cache, slot, clock) =>
                       /\ got.result = None
                       /\ EntryAt(got.cache, slot) = NoEntry
                       /\ \A later \in Times :
                             later >= clock => Get(got.cache, slot, later).result = None)
    /\ [][\A slot \in Slots :
             (EntryAt(cache', slot) # EntryAt(cache, slot) /\ EntryAt(cache', slot) # NoEntry) =>
                 \A now \in Times :
                     now < EntryAt(cache', slot).expires_at =>
                         Get(cache', slot, now).result = EntryAt(cache', slot).data]_vars

(* The part of C32 that holds for all four caches: what a get returns,   *)
(* now and at every later time.  The entry itself is removed by the three *)
(* keyed caches.                                                           *)
C32_GetResults ==
    \A slot \in Slots :
        LET got == Get(cache, slot, clock)
        IN  /\ got.result = IF Fresh(cache, slot, clock) THEN EntryAt(cache, slot).data ELSE None
            /\ ~Fresh(cache, slot, clock) =>
                  /\ slot[1] # "qualifications" => EntryAt(got.cache, slot) = NoEntry
                  /\ \A later \in Times :
                        later >= clock => Get(got.cache, slot, later).result = None

(***************************************************************************)
(* C33.  After clear() a get returns nothing for every key of every kind  *)
(* of cache.                                                               *)
(***************************************************************************)
Cleared == clear_cache(cache)

C33_ClearEmptiesEveryCache ==
    \A slot \in Slots : Get(Cleared, slot, clock).result = None

(***************************************************************************)
(* C34.  A sweep at time t removes the entries whose expiry is at or      *)
(* before t, in all four caches, and leaves every other entry as it is;   *)
(* a get right after the sweep returns what it would have returned right  *)
(* before it, for every key.                                               *)
(***************************************************************************)
SweptNow == clear_expired_cache(cache, clock)

C34_SweepRemovesExactlyExpired ==
    \A slot \in Slots :
        /\ EntryAt(SweptNow, slot) =
              IF EntryAt(cache, slot) # NoEntry /\ EntryAt(cache, slot).expires_at <= clock
              THEN NoEntry
              ELSE EntryAt(cache, slot)
        /\ Get(SweptNow, slot, clock).result = Get(cache, slot, clock).result

(* A sweep has something to remove and something to keep: one entry is    *)
(* due at this very time and another is not yet.                          *)
C34_Witness ==
    /\ \E slot \in Slots :
          EntryAt(cache, slot) # NoEntry /\ EntryAt(cache, slot).expires_at = clock
    /\ \E slot \in Slots : Fresh(cache, slot, clock)
    /\ \E slot \in Slots :
          EntryAt(cache, slot) # NoEntry /\ EntryAt(SweptNow, slot) = NoEntry

(***************************************************************************)
(* C35.  A fetch returns a fixed result for each outcome: (True, None)    *)
(* for a 200, whose file is then in the working directory; (False,        *)
(* "HTTP S") for another status S, (False, "Timeout") for a timeout and   *)
(* (False, the exception's message) for any other exception, none of      *)
(* which adds a file to the working directory; and whatever the outcome,  *)
(* the slot of the gate the fetch held is free again when it returns.     *)
(***************************************************************************)
FetchReturns(j, f) ==
    /\ f \in DOMAIN tasks[j]
    /\ f \in DOMAIN tasks'[j]
    /\ tasks[j][f].st = "in_flight"
    /\ tasks'[j][f].st = "returned"

ResultOf(outcome) ==
    CASE outcome = "200" -> <<TRUE, None>>
      [] outcome = "404" -> <<FALSE, "HTTP 404">>
      [] outcome = "timeout" -> <<FALSE, "Timeout">>
      [] OTHER -> <<FALSE, "str(e)">>

C35_FetchOutcomeMapping ==
    [][\A j \in Solo, f \in 1..MaxFiles :
          FetchReturns(j, f) =>
              LET o == tasks'[j][f].outcome
                  r == download_file_async(o)
              IN  /\ o \in FetchOutcomes
                  /\ ~r.raised
                  /\ <<r.success, r.error>> = ResultOf(o)
                  /\ workdir'[j] = IF o = "200" THEN workdir[j] \cup {f} ELSE workdir[j]
                  /\ semaphore'[j] = semaphore[j] + 1
                  /\ InFlight(j)' = InFlight(j) - 1]_vars

(* Fetches that ended on another status, on a timeout and on an exception *)
(* have all returned, none left a file, and the gate is full again.       *)
C35_Witness ==
    \E j \in Solo :
        /\ Len(tasks[j]) = 3
        /\ tasks[j][1].outcome = "404"
        /\ tasks[j][2].outcome = "timeout"
        /\ tasks[j][3].outcome = "client_error"
        /\ workdir[j] = {}
        /\ semaphore[j] = MAX_CONCURRENT_DOWNLOADS
        /\ pc[j] = "fetching"

(***************************************************************************)
(* C36.  In the fetch phase the record is saved exactly when the new      *)
(* current_file is a multiple of 10 or equals total_files; the durable    *)
(* record's current_file is never 10 or more behind the one in memory;    *)
(* and once the job is "completed" or "failed" the durable record equals  *)
(* the record in memory.                                                   *)
(***************************************************************************)
Counts(j) ==
    /\ Exists(j)
    /\ download_jobs'[j] # NoJob
    /\ download_jobs'[j].current_file = download_jobs[j].current_file + 1

C36_SavedEveryTenthAndLast ==
    /\ [][\A j \in Solo : Counts(j) =>
             LET count == download_jobs'[j].current_file
             IN  IF count % 10 = 0 \/ count = download_jobs'[j].total_files
                 THEN job_files'[j] = download_jobs'[j]
                 ELSE job_files'[j] = job_files[j]]_vars
    /\ [](\A j \in Solo : Exists(j) =>
             /\ download_jobs[j].current_file - job_files[j].current_file < 10
             /\ download_jobs[j].status \in Terminal => job_files[j] = download_jobs[j])

(***************************************************************************)
(* C37.  Results are recorded in the order the fetches return.  A fetch   *)
(* that returns queues up behind the fetches that returned before it and  *)
(* are not recorded yet; the loop always records the fetch that returned  *)
(* first among those, appending it to its result list and counting it in  *)
(* current_file; and it does so whether or not a fetch submitted earlier  *)
(* is still in flight.                                                     *)
(***************************************************************************)
Records(j, f) ==
    /\ f \in DOMAIN tasks[j]
    /\ f \in DOMAIN tasks'[j]
    /\ tasks[j][f].st = "returned"
    /\ tasks'[j][f].st = "recorded"

ReturnedUnrecorded(j) == {f \in DOMAIN tasks[j] : tasks[j][f].st = "returned"}

C37_RecordedInCompletionOrder ==
    /\ [](\A j \in Solo : Range(completed_q[j]) = ReturnedUnrecorded(j))
    /\ [][\A j \in Solo, f \in 1..MaxFiles :
             /\ FetchReturns(j, f) => completed_q'[j] = Append(completed_q[j], f)
             /\ Records(j, f) =>
                   /\ f = Head(completed_q[j])
                   /\ completed_q'[j] = Tail(completed_q[j])
                   /\ download_jobs'[j].current_file = download_jobs[j].current_file + 1
                   /\ Listings(download_jobs'[j], f) = 1
                   /\ Listings(download_jobs[j], f) = 0
             /\ (Counts(j) /\ completed_q[j] # <<>> /\ Head(completed_q[j]) = f)
                   => Records(j, f)]_vars

(* The second file of the list is recorded while the first, submitted    *)
(* before it, is still in flight.                                         *)
C37_Witness ==
    \E j \in Solo :
        /\ Len(tasks[j]) >= 2
        /\ tasks[j][1].st = "in_flight"
        /\ tasks[j][2].st = "recorded"
        /\ download_jobs[j].current_file = 1
        /\ Listings(download_jobs[j], 2) = 1

(***************************************************************************)
(* C38.  A status query sees an archive-mode job only between two steps   *)
(* of its task, and what it sees is whole: current_file is the number of  *)
(* entries of downloaded_files and failed_files together, and during the  *)
(* fetch phase (fetches waiting at the gate, in flight, or the loop       *)
(* waiting for the next one to return) the percentage is the one of that  *)
(* current_file.                                                           *)
(***************************************************************************)
Snapshot(j) == DownloadProgress(download_jobs[j])

C38_QueriesSeeConsistentSnapshot ==
    \A j \in Solo :
        (Idle /\ Exists(j) /\ download_jobs[j].download_method = "zip") =>
            LET seen == Snapshot(j)
            IN  /\ seen.current_file = Len(seen.downloaded_files) + Len(seen.failed_files)
                /\ seen.current_file <= seen.total_files
                /\ pc[j] = "fetching" =>
                      PctEq(seen.percentage, Pct(100 * seen.current_file, seen.total_files))

(* One result recorded, one fetch in flight and one waiting at the gate. *)
C38_Witness ==
    \E j \in Solo :
        /\ Idle
        /\ pc[j] = "fetching"
        /\ Snapshot(j).current_file = 1
        /\ Snapshot(j).total_files = 3
        /\ \E f \in DOMAIN tasks[j] : tasks[j][f].st = "in_flight"
        /\ \E f \in DOMAIN tasks[j] : tasks[j][f].st = "queued"

(***************************************************************************)
(* C39.  Once the worker that runs a job has brought it to a terminal     *)
(* status and saved it, a status query at the other worker eventually     *)
(* reports that terminal status: a copy the other worker loaded earlier   *)
(* does not stand in for the durable record forever.                       *)
(***************************************************************************)
PersistedTerminal(j) ==
    /\ job_files[j] # NoJob
    /\ job_files[j] # Torn
    /\ job_files[j].status \in Terminal
    /\ pc[j] = "returned"

ReportsTerminal(w, j) ==
    LET answer == QueryAnswer("status", w, j)
    IN  /\ answer.status_code = 200
        /\ answer.body.status = job_files[j].status

C39_OtherWorkerSeesTerminalStatus ==
    \A j \in Solo : PersistedTerminal(j) ~> (PersistedTerminal(j) /\ ReportsTerminal(2, j))

(***************************************************************************)
(* C40.  In every reachable state, under any interleaving of the task     *)
(* with start-direct and delete calls, a job's zip_path and zip_filename  *)
(* are set only if its status is "completed", and both are set whenever   *)
(* an archive-mode job's status is "completed".                            *)
(***************************************************************************)
ArchiveNamed(j) ==
    download_jobs[j].zip_path # None \/ download_jobs[j].zip_filename # None

ArchiveFullyNamed(j) ==
    download_jobs[j].zip_path # None /\ download_jobs[j].zip_filename # None

C40_ArchiveFieldsIffCompleted ==
    \A j \in JobIds :
        Exists(j) =>
            /\ ArchiveNamed(j) => download_jobs[j].status = "completed"
            /\ download_jobs[j].download_method = "zip"
                   /\ download_jobs[j].status = "completed"
               => ArchiveFullyNamed(j)

====
